---- MODULE Spec2Model ----
(***************************************************************************)
(* A model of the deterministic core of orchids-cloner:                    *)
(*   - intelligent_color_extraction  (src/backend/app/ai_generator.py)     *)
(*   - AIHTMLGenerator and generate_enhanced_html (same file)              *)
(*                                                                         *)
(* Python values are modelled as follows.                                  *)
(*   str    a sequence of one-character strings ("\n" is the newline)      *)
(*   None   the one-element sequence NoneVal (no text holds that element)  *)
(*   list   a sequence                                                     *)
(*   dict   a function whose DOMAIN is the set of keys that are present;   *)
(*          a dict whose iteration order matters (a style map, the         *)
(*          color_usage counter) is a sequence of <<key, value>> pairs     *)
(*          with distinct keys, in insertion order                         *)
(* A template literal of the source is one multi-character string element  *)
(* of the sequence it is spliced into, so that interpolated text (single   *)
(* characters) can never be mistaken for template text.                    *)
(***************************************************************************)
EXTENDS Integers, Sequences, FiniteSets, TLC

VARIABLES
    \* intelligent_color_extraction
    computed_styles,   \* the argument
    scan_pos,          \* index of the next style record of the loop at line 742
    color_usage,       \* the insertion-ordered counter of line 740
    colors,            \* the bucket map of lines 732-738
    color_pc,          \* "scan" while counting, "done" after the return
    \* AIHTMLGenerator
    scraped_data,      \* self.scraped_data
    design_tokens,     \* self.design_tokens
    layout_analysis,   \* self.layout_analysis
    components,        \* self.components
    caller,            \* who invokes the method: the module-level function
                       \* generate_enhanced_html, or code holding the object
    pc,                \* position inside AIHTMLGenerator.generate_enhanced_html
    error,             \* the exception raised in the current invocation, or ""
    failed_at,         \* the step that raised it, or ""
    css,               \* the local css of line 26
    html_structure,    \* the local html_structure of line 29
    result,            \* what the latest invocation of the method returned
    outputs,           \* what every invocation so far returned, in order
    entry_result,      \* what the module-level function returned
    \* clone_site (hello.py)
    request_url,       \* request.url
    clone_pc,          \* position inside clone_site
    rendered,          \* what get_rendered_html returned, <<>> before
    clone_error,       \* the exception caught at line 755, or ""
    clone_response,    \* how clone_site ended: a returned body or a raise
    \* the summarizers of hello.py
    computed_styles_str, \* the style text they are given
    typography_info,   \* what summarize_typography returned
    layout_info,       \* what summarize_layout_system returned
    spacing_info,      \* what summarize_spacing_system returned
    summary_pc,        \* which summarizer runs next
    \* the formatting loop of get_comprehensive_styles (rendered_scraper.py)
    styles_info,       \* the style records
    formatted_styles,  \* the list of output lines
    style_pos,         \* index of the next record of the loop at line 321
    styles_result,     \* how the function ended: the pair of line 375 or
                       \* the "" of line 379
    \* two generators side by side
    generators,        \* the fields of each AIHTMLGenerator object
    lists,             \* the list objects, by identity
    \* get_rendered_html (rendered_scraper.py)
    render_url,        \* the argument url
    render_pc,         \* position inside get_rendered_html
    render_locals,     \* the local names that are bound, with their values
    render_error,      \* the exception in flight or caught, "" if none
    browser_closed,    \* whether browser.close() has run
    render_result      \* how the function ended: a returned tuple or a raise

color_vars == <<computed_styles, scan_pos, color_usage, colors, color_pc>>

gen_vars ==
    <<scraped_data, design_tokens, layout_analysis, components, caller, pc,
      error, failed_at, css, html_structure, result, outputs, entry_result>>

clone_vars ==
    <<request_url, clone_pc, rendered, clone_error, clone_response>>

summary_vars ==
    <<computed_styles_str, typography_info, layout_info, spacing_info, summary_pc>>

format_vars == <<styles_info, formatted_styles, style_pos, styles_result>>

pair_vars == <<generators, lists>>

render_vars ==
    <<render_url, render_pc, render_locals, render_error, browser_closed,
      render_result>>

\* the variables beside those of intelligent_color_extraction and of one
\* AIHTMLGenerator
more_vars == <<clone_vars, summary_vars, format_vars, pair_vars, render_vars>>

vars == <<color_vars, gen_vars, more_vars>>

-----------------------------------------------------------------------------
(* Python built-ins used by the source *)

NoneVal == <<"<None>">>

\* dict.get(key, default)
Get(d, key, default) == IF key \in DOMAIN d THEN d[key] ELSE default

\* s[:n] for n >= 0
Take(s, n) == SubSeq(s, 1, IF Len(s) < n THEN Len(s) ELSE n)

\* `sub in s` for strings
Contains(sub, s) ==
    \E i \in 0..(Len(s) - Len(sub)) : SubSeq(s, i + 1, i + Len(sub)) = sub

UpperChars ==
    <<"A","B","C","D","E","F","G","H","I","J","K","L","M",
      "N","O","P","Q","R","S","T","U","V","W","X","Y","Z">>

LowerChars ==
    <<"a","b","c","d","e","f","g","h","i","j","k","l","m",
      "n","o","p","q","r","s","t","u","v","w","x","y","z">>

LowerChar(ch) ==
    IF \E k \in 1..Len(UpperChars) : UpperChars[k] = ch
    THEN LowerChars[CHOOSE k \in 1..Len(UpperChars) : UpperChars[k] = ch]
    ELSE ch

\* str.lower()
Lower(s) == [i \in 1..Len(s) |-> LowerChar(s[i])]

DigitChars == <<"0","1","2","3","4","5","6","7","8","9">>

IsDigit(ch) == \E k \in 1..Len(DigitChars) : DigitChars[k] = ch

DigitVal(ch) == (CHOOSE k \in 1..Len(DigitChars) : DigitChars[k] = ch) - 1

\* int(s) for a run of decimal digits
RECURSIVE ToInt(_)
ToInt(ds) ==
    IF ds = <<>> THEN 0
    ELSE ToInt(SubSeq(ds, 1, Len(ds) - 1)) * 10 + DigitVal(ds[Len(ds)])

RECURSIVE DigitRuns(_, _, _)
DigitRuns(s, cur, acc) ==
    IF s = <<>> THEN (IF cur = <<>> THEN acc ELSE Append(acc, cur))
    ELSE IF IsDigit(Head(s)) THEN DigitRuns(Tail(s), Append(cur, Head(s)), acc)
    ELSE DigitRuns(Tail(s), <<>>, IF cur = <<>> THEN acc ELSE Append(acc, cur))

\* re.findall(r'\d+', s): the maximal runs of digits, left to right
FindAllDigits(s) == DigitRuns(s, <<>>, <<>>)

\* The position that sorted(..., key=..., reverse=True) gives element i: the
\* sort is stable, so equal keys keep their input order.
RankDesc(keys, i) ==
    1 + Cardinality({j \in 1..Len(keys) :
                        keys[j] > keys[i] \/ (keys[j] = keys[i] /\ j < i)})

\* sorted(items, key=..., reverse=True), keys[i] being the key of items[i]
SortedDesc(items, keys) ==
    [p \in 1..Len(items) |->
        items[CHOOSE i \in 1..Len(items) : RankDesc(keys, i) = p]]

-----------------------------------------------------------------------------
(* String literals of the source and of the inputs *)

kw_color == <<"c","o","l","o","r">>

kw_rgb == <<"r","g","b">>

p_color == <<"c","o","l","o","r">>

p_backgroundColor ==
    <<"b","a","c","k","g","r","o","u","n","d","C","o","l","o","r">>

p_borderColor == <<"b","o","r","d","e","r","C","o","l","o","r">>

p_outlineColor == <<"o","u","t","l","i","n","e","C","o","l","o","r">>

p_textDecorationColor ==
    <<"t","e","x","t","D","e","c","o","r","a","t","i","o","n","C","o","l","o","r">>

p_caretColor == <<"c","a","r","e","t","C","o","l","o","r">>

p_BorderTopCOLOR ==
    <<"B","o","r","d","e","r","T","o","p","C","O","L","O","R">>

p_fontSize == <<"f","o","n","t","S","i","z","e">>

p_background == <<"b","a","c","k","g","r","o","u","n","d">>

p_fill == <<"f","i","l","l">>

v_black == <<"r","g","b","(","0",","," ","0",","," ","0",")">>

v_white ==
    <<"r","g","b","(","2","5","5",","," ","2","5","5",","," ","2","5","5",")">>

v_avg200 ==
    <<"r","g","b","(","2","0","0",","," ","2","0","0",","," ","2","0","0",")">>

v_avg100 ==
    <<"r","g","b","(","1","0","0",","," ","1","0","0",","," ","1","0","0",")">>

v_above200 ==
    <<"r","g","b","(","2","0","1",","," ","2","0","0",","," ","2","0","0",")">>

v_below100 ==
    <<"r","g","b","(","9","9",","," ","1","0","0",","," ","1","0","0",")">>

v_mid ==
    <<"r","g","b","(","1","2","0",","," ","1","3","0",","," ","1","4","0",")">>

v_mid2 ==
    <<"r","g","b","(","1","5","0",","," ","1","5","0",","," ","1","5","0",")">>

v_rgba_clear ==
    <<"r","g","b","a","(","0",","," ","0",","," ","0",","," ","0",")">>

v_rgba_white ==
    <<"r","g","b","a","(","2","5","5",","," ","2","5","5",","," ",
      "2","5","5",","," ","0",".","5",")">>

v_rgb_short == <<"r","g","b","(","1","0",","," ","2","0",")">>

v_hex_fff == <<"#","f","f","f">>

v_hex_000 == <<"#","0","0","0">>

v_red == <<"r","e","d">>

v_blue == <<"b","l","u","e">>

v_transparent == <<"t","r","a","n","s","p","a","r","e","n","t">>

v_16px == <<"1","6","p","x">>

-----------------------------------------------------------------------------
(* intelligent_color_extraction *)

TopColors == 10

PrimaryUsage == 3

BackgroundAvg == 200

TextAvg == 100

\* sum(int(x) for x in rgb_values[:3])
RgbSum(rgb_values) ==
    ToInt(rgb_values[1]) + ToInt(rgb_values[2]) + ToInt(rgb_values[3])

\* _is_background_color with the comparison written avg >= 200
IsBackgroundColorInclusive(color) ==
    IF color = <<>> \/ ~Contains(kw_rgb, color) THEN FALSE
    ELSE LET rgb_values == FindAllDigits(color)
         IN  IF Len(rgb_values) >= 3
             THEN RgbSum(rgb_values) >= 3 * BackgroundAvg
             ELSE FALSE

\* _is_background_color.  avg = sum / 3 is a true division, so avg > 200
\* exactly when sum > 3 * 200.
IsBackgroundColor(color) ==
    IF color = <<>> \/ ~Contains(kw_rgb, color) THEN FALSE
    ELSE LET rgb_values == FindAllDigits(color)
         IN  IF Len(rgb_values) >= 3
             THEN RgbSum(rgb_values) > 3 * BackgroundAvg
             ELSE FALSE

\* _is_text_color.  avg < 100 exactly when sum < 3 * 100.
IsTextColor(color) ==
    IF color = <<>> \/ ~Contains(kw_rgb, color) THEN FALSE
    ELSE LET rgb_values == FindAllDigits(color)
         IN  IF Len(rgb_values) >= 3
             THEN RgbSum(rgb_values) < 3 * TextAvg
             ELSE FALSE

\* colors = {...} of lines 732-738
EmptyColors ==
    [primary |-> <<>>, secondary |-> <<>>, text |-> <<>>,
     background |-> <<>>, accent |-> <<>>]

\* `'color' in prop.lower() and value`
IsCounted(prop, value) == Contains(kw_color, Lower(prop)) /\ value # <<>>

\* lines 745-748 for one property of one record
CountColor(usage, prop, value) ==
    IF ~IsCounted(prop, value) THEN usage
    ELSE IF \E k \in 1..Len(usage) : usage[k][1] = value
    THEN [k \in 1..Len(usage) |->
            IF usage[k][1] = value THEN <<value, usage[k][2] + 1>> ELSE usage[k]]
    ELSE Append(usage, <<value, 1>>)

\* the inner loop of lines 744-748 over styles.items()
RECURSIVE ScanStyles(_, _)
ScanStyles(usage, styles) ==
    IF styles = <<>> THEN usage
    ELSE ScanStyles(CountColor(usage, Head(styles)[1], Head(styles)[2]),
                    Tail(styles))

\* the ranking with equal counts in reverse first-seen order
SortedByUsageTiesReversed(items) ==
    [p \in 1..Len(items) |->
        items[CHOOSE i \in 1..Len(items) :
                p = 1 + Cardinality({j \in 1..Len(items) :
                        items[j][2] > items[i][2]
                        \/ (items[j][2] = items[i][2] /\ j > i)})]]

\* sorted(color_usage.items(), key=lambda x: x[1], reverse=True)
SortedByUsage(items) ==
    SortedDesc(items, [i \in 1..Len(items) |-> items[i][2]])

\* the loop of line 754 without the [:10]
TopWindowAll(sorted_colors) == sorted_colors

\* sorted_colors[:10]
TopWindow(sorted_colors) == Take(sorted_colors, TopColors)

\* the chain of lines 755-762 without its final else
ClassifyColorDropPlain(cols, color, usage) ==
    IF IsBackgroundColor(color)
    THEN [cols EXCEPT !.background = Append(@, color)]
    ELSE IF IsTextColor(color)
    THEN [cols EXCEPT !.text = Append(@, color)]
    ELSE IF usage > PrimaryUsage
    THEN [cols EXCEPT !.primary = Append(@, color)]
    ELSE cols

\* the if/elif chain of lines 755-762 for one (color, usage)
ClassifyColor(cols, color, usage) ==
    IF IsBackgroundColor(color)
    THEN [cols EXCEPT !.background = Append(@, color)]
    ELSE IF IsTextColor(color)
    THEN [cols EXCEPT !.text = Append(@, color)]
    ELSE IF usage > PrimaryUsage
    THEN [cols EXCEPT !.primary = Append(@, color)]
    ELSE [cols EXCEPT !.accent = Append(@, color)]

\* the loop of lines 754-762
RECURSIVE CategorizeColors(_, _)
CategorizeColors(cols, window) ==
    IF window = <<>> THEN cols
    ELSE CategorizeColors(ClassifyColor(cols, Head(window)[1], Head(window)[2]),
                          Tail(window))

(* The style records the extraction is run on.  A record's styles are the  *)
(* items of its dict, in insertion order.                                  *)

MaxRecords == 3

StyleBody ==
    [selector |-> <<"b","o","d","y">>, label |-> <<"B","o","d","y">>,
     styles |-> << <<p_color, v_black>>, <<p_backgroundColor, v_white>>,
                   <<p_borderColor, v_black>>, <<p_outlineColor, v_black>>,
                   <<p_fontSize, v_16px>>,
                   <<p_textDecorationColor, v_black>> >>]

StyleHeader ==
    [selector |-> <<"h","e","a","d","e","r">>,
     label |-> <<"H","e","a","d","e","r">>,
     styles |-> << <<p_backgroundColor, v_black>>, <<p_color, v_white>>,
                   <<p_borderColor, v_avg200>>, <<p_BorderTopCOLOR, v_avg100>>,
                   <<p_caretColor, <<>> >>, <<p_background, v_mid2>> >>]

StyleLinks ==
    [selector |-> <<"a">>, label |-> <<"L","i","n","k">>,
     styles |-> << <<p_color, v_hex_fff>>, <<p_backgroundColor, v_red>>,
                   <<p_borderColor, v_above200>>, <<p_outlineColor, v_below100>>,
                   <<p_caretColor, v_rgba_clear>>,
                   <<p_textDecorationColor, v_rgb_short>> >>]

StyleButtons ==
    [selector |-> <<"b","u","t","t","o","n">>,
     label |-> <<"B","u","t","t","o","n">>,
     styles |-> << <<p_color, v_hex_000>>, <<p_backgroundColor, v_blue>>,
                   <<p_borderColor, v_mid>>, <<p_outlineColor, v_rgba_white>>,
                   <<p_caretColor, v_transparent>>,
                   <<p_BorderTopCOLOR, v_mid2>>, <<p_fill, v_avg100>> >>]

StyleCards ==
    [selector |-> <<".","c","a","r","d">>, label |-> <<"C","a","r","d">>,
     styles |-> << <<p_color, v_mid>>, <<p_backgroundColor, v_hex_fff>>,
                   <<p_borderColor, v_hex_fff>>, <<p_outlineColor, v_hex_fff>>,
                   <<p_caretColor, v_mid>>, <<p_BorderTopCOLOR, v_mid>>,
                   <<p_textDecorationColor, v_hex_fff>> >>]

\* a record without the 'styles' key
StyleBare == [selector |-> <<"p">>, label |-> <<"P">>]

StylePool ==
    {StyleBody, StyleHeader, StyleLinks, StyleButtons, StyleCards, StyleBare}

StyleLists == UNION {[1..n -> StylePool] : n \in 0..MaxRecords}

-----------------------------------------------------------------------------
(* More Python built-ins *)

\* None where a dict is expected, and where a list of dicts is expected
NoneDict == [none |-> TRUE]

NoneList == <<NoneDict>>

\* bool(x) for a str or None
Truthy(x) == x # NoneVal /\ x # <<>>

\* str(x) inside an f-string, for a str or None
PyStr(x) == IF x = NoneVal THEN <<"N","o","n","e">> ELSE x

\* a or b
Or(a, b) == IF Truthy(a) THEN a ELSE b

NL == <<"\n">>

BlankLine == <<"\n","\n">>

\* s[from:].split(sep): the separator is matched left to right
RECURSIVE SplitFrom(_, _, _)
SplitFrom(s, sep, from) ==
    LET hits == {i \in from..(Len(s) - Len(sep) + 1) :
                    SubSeq(s, i, i + Len(sep) - 1) = sep}
    IN  IF hits = {} THEN <<SubSeq(s, from, Len(s))>>
        ELSE LET h == CHOOSE i \in hits : \A j \in hits : i <= j
             IN  <<SubSeq(s, from, h - 1)>> \o SplitFrom(s, sep, h + Len(sep))

\* s.split(sep)
Split(s, sep) == SplitFrom(s, sep, 1)

Whitespace == {" ", "\n", "\t", "\r"}

\* s.strip()
Strip(s) ==
    LET keep == {i \in 1..Len(s) : s[i] \notin Whitespace}
    IN  IF keep = {} THEN <<>>
        ELSE SubSeq(s, CHOOSE i \in keep : \A j \in keep : i <= j,
                       CHOOSE i \in keep : \A j \in keep : i >= j)

\* sep.join(parts)
RECURSIVE Join(_, _)
Join(parts, sep) ==
    IF parts = <<>> THEN <<>>
    ELSE IF Len(parts) = 1 THEN parts[1]
    ELSE parts[1] \o sep \o Join(Tail(parts), sep)

\* dict.get on a dict kept as <<key, value>> pairs
PairsGet(pairs, key, default) ==
    IF \E k \in 1..Len(pairs) : pairs[k][1] = key
    THEN pairs[CHOOSE k \in 1..Len(pairs) : pairs[k][1] = key][2]
    ELSE default

\* d.update(items) on dicts kept as <<key, value>> pairs: a key that is
\* present keeps its place and takes the new value, a new key goes last
RECURSIVE PairsUpdate(_, _)
PairsUpdate(d, items) ==
    IF items = <<>> THEN d
    ELSE LET key == Head(items)[1]
             val == Head(items)[2]
             d1 == IF \E k \in 1..Len(d) : d[k][1] = key
                   THEN [k \in 1..Len(d) |->
                           IF d[k][1] = key THEN <<key, val>> ELSE d[k]]
                   ELSE Append(d, <<key, val>>)
         IN  PairsUpdate(d1, Tail(items))

-----------------------------------------------------------------------------
(* Literals of AIHTMLGenerator *)

t_Welcome == <<"W","e","l","c","o","m","e">>

t_DefaultSubtitle ==
    <<"D","i","s","c","o","v","e","r"," ","a","m","a","z","i","n","g"," ",
      "c","o","n","t","e","n","t">>

t_DefaultSubtitleLong ==
    <<"D","i","s","c","o","v","e","r"," ","a","m","a","z","i","n","g"," ",
      "c","o","n","t","e","n","t"," ","a","n","d"," ",
      "s","e","r","v","i","c","e","s">>

t_ComingSoon ==
    <<"C","o","n","t","e","n","t"," ","c","o","m","i","n","g"," ",
      "s","o","o","n",".",".",".">>

t_WelcomeSite ==
    <<"W","e","l","c","o","m","e"," ","t","o"," ","o","u","r"," ",
      "w","e","b","s","i","t","e">>

t_Section == <<"S","e","c","t","i","o","n"," ">>

t_Copyright ==
    <<"(c)"," ","2","0","2","4"," ","A","l","l"," ","r","i","g","h","t","s"," ",
      "r","e","s","e","r","v","e","d",".">>

t_ClonedWebsite ==
    <<"C","l","o","n","e","d"," ","W","e","b","s","i","t","e">>

kw_nav == <<"n","a","v">>

kw_footer == <<"f","o","o","t","e","r">>

kw_header == <<"h","e","a","d","e","r">>

kw_main_heading == <<"m","a","i","n"," ","h","e","a","d","i","n","g">>

kw_main_content == <<"m","a","i","n"," ","c","o","n","t","e","n","t">>

kw_paragraph == <<"p","a","r","a","g","r","a","p","h">>

\* The templates.  Each is the literal text between two interpolations.
NavHtml ==
    "<nav class=\"navbar\"><div class=\"container\"><div class=\"navbar-brand\">Brand</div><ul class=\"navbar-nav\"><li><a href=\"#home\">Home</a></li><li><a href=\"#about\">About</a></li><li><a href=\"#services\">Services</a></li><li><a href=\"#contact\">Contact</a></li></ul></div></nav>"

HeaderOpen == "<header class=\"hero\"><div class=\"container\"><h1>"

HeaderMid == "</h1><p>"

HeaderClose ==
    "</p><a href=\"#learn-more\" class=\"btn\">Learn More</a></div></header>"

SectionOpenH2 == "<div class=\"content-section\"><h2>"

SectionH2ToP == "</h2><p>"

SectionCloseH2 == "</h2></div>"

SectionOpenP == "<div class=\"content-section\"><p>"

SectionCloseP == "</p></div>"

WelcomeSection ==
    "<div class=\"content-section\"><h2>Welcome</h2><p>This is the main content area of the website.</p></div>"

MainOpen == "<main class=\"main-content\"><div class=\"container\">\n"

MainClose ==
    "\n<div class=\"content-section\"><a href=\"#contact\" class=\"btn\">Get Started</a></div></div></main>"

FooterOpen == "<footer class=\"footer\"><div class=\"container\"><p>"

FooterClose == "</p></div></footer>"

TitleLimit == 50

SubtitleLimit == 100

HeadingLimit == 100

ParagraphLimit == 300

FooterLimit == 100

MaxSections == 3

-----------------------------------------------------------------------------
(* The HTML synthesizer.  A function that can raise yields a record: err  *)
(* is the exception ("" when it returns) and html the value returned.      *)

Returned(html) == [err |-> "", html |-> html]

Raised(kind) == [err |-> kind, html |-> <<>>]

\* _generate_navigation_html
GenerateNavigationHtml(component) == Returned(<<NavHtml>>)

\* _generate_header_html.  With content None line 557 takes 'Welcome' and
\* line 558 raises TypeError on `'\n' in content`.
GenerateHeaderHtml(component) ==
    LET content == Get(component, "content", <<>>)
    IN  IF content = NoneVal THEN Raised("TypeError")
        ELSE LET title == IF Truthy(content) THEN Split(content, NL)[1]
                          ELSE t_Welcome
                 subtitle == IF Contains(NL, content) THEN Split(content, NL)[2]
                             ELSE t_DefaultSubtitle
             IN  Returned(<<HeaderOpen>>
                          \o Or(Take(title, TitleLimit), t_Welcome)
                          \o <<HeaderMid>>
                          \o Or(Take(subtitle, SubtitleLimit),
                                t_DefaultSubtitleLong)
                          \o <<HeaderClose>>)

\* f'Section {i+1}' for the i-th heading, i counted from 1 here
SectionName(i) == t_Section \o <<DigitChars[i + 1]>>

\* the section of lines 580-583 with the first paragraph for every heading
HeadingSectionFirstParagraph(headings, paragraphs, i) ==
    LET section_content == IF 1 <= Len(paragraphs) THEN paragraphs[1]
                           ELSE t_ComingSoon
    IN  <<SectionOpenH2>>
        \o PyStr(Get(headings[i], "text", SectionName(i)))
        \o <<SectionH2ToP>>
        \o Take(section_content, ParagraphLimit)
        \o <<SectionCloseP>>

\* the section of lines 580-583 for heading i, counted from 1
HeadingSection(headings, paragraphs, i) ==
    LET section_content == IF i <= Len(paragraphs) THEN paragraphs[i]
                           ELSE t_ComingSoon
    IN  <<SectionOpenH2>>
        \o PyStr(Get(headings[i], "text", SectionName(i)))
        \o <<SectionH2ToP>>
        \o Take(section_content, ParagraphLimit)
        \o <<SectionCloseP>>

\* lines 588-596 without the `if i == 0` of line 589: every part a paragraph
PartSectionAllParagraphs(part, i) ==
    IF ~Truthy(Strip(part)) THEN <<>>
    ELSE <<SectionOpenP>> \o Take(Strip(part), ParagraphLimit)
            \o <<SectionCloseP>>

\* the section of lines 588-596 for part i, counted from 1; <<>> if skipped
PartSection(part, i) ==
    IF ~Truthy(Strip(part)) THEN <<>>
    ELSE IF i = 1
    THEN <<SectionOpenH2>> \o Take(Strip(part), HeadingLimit)
            \o <<SectionCloseH2>>
    ELSE <<SectionOpenP>> \o Take(Strip(part), ParagraphLimit)
            \o <<SectionCloseP>>

\* the non-empty elements of a list, in order
RECURSIVE NonEmpty(_)
NonEmpty(parts) ==
    IF parts = <<>> THEN <<>>
    ELSE IF Head(parts) = <<>> THEN NonEmpty(Tail(parts))
    ELSE <<Head(parts)>> \o NonEmpty(Tail(parts))

\* sections_html of _generate_main_content_html
SectionsHtml(content, headings, paragraphs) ==
    IF headings # <<>> /\ paragraphs # <<>>
    THEN LET shown == Take(headings, MaxSections)
         IN  [i \in 1..Len(shown) |-> HeadingSection(shown, paragraphs, i)]
    ELSE LET content_parts == IF Truthy(content) THEN Split(content, BlankLine)
                              ELSE <<t_WelcomeSite>>
             shown == Take(content_parts, MaxSections)
         IN  NonEmpty([i \in 1..Len(shown) |-> PartSection(shown[i], i)])

\* _generate_main_content_html.  A paragraph that is None raises TypeError
\* at the slice of line 582.
GenerateMainContentHtml(component) ==
    LET content == Get(component, "content", <<>>)
        headings == Get(component, "headings", <<>>)
        paragraphs == Get(component, "paragraphs", <<>>)
    IN  IF /\ headings # <<>> /\ paragraphs # <<>>
           /\ \E i \in 1..Len(paragraphs) :
                 i <= Len(Take(headings, MaxSections)) /\ paragraphs[i] = NoneVal
        THEN Raised("TypeError")
        ELSE LET sections_html == SectionsHtml(content, headings, paragraphs)
                 sections_content == IF sections_html # <<>>
                                     THEN Join(sections_html, NL)
                                     ELSE <<WelcomeSection>>
             IN  Returned(<<MainOpen>> \o sections_content \o <<MainClose>>)

\* _generate_footer_html without the slice of line 615
GenerateFooterHtmlUncut(component) ==
    LET content == Get(component, "content", <<>>)
        footer_text == IF Truthy(content) THEN content ELSE t_Copyright
    IN  Returned(<<FooterOpen>> \o footer_text \o <<FooterClose>>)

\* _generate_footer_html
GenerateFooterHtml(component) ==
    LET content == Get(component, "content", <<>>)
        footer_text == IF Truthy(content) THEN Take(content, FooterLimit)
                       ELSE t_Copyright
    IN  Returned(<<FooterOpen>> \o footer_text \o <<FooterClose>>)

\* _generate_component_html
GenerateComponentHtml(component) ==
    LET component_type == Get(component, "type", "")
    IN  IF component_type = "navigation" THEN GenerateNavigationHtml(component)
        ELSE IF component_type = "header" THEN GenerateHeaderHtml(component)
        ELSE IF component_type = "main_content"
        THEN GenerateMainContentHtml(component)
        ELSE IF component_type = "footer" THEN GenerateFooterHtml(component)
        ELSE Returned(<<>>)

\* line 516 without reverse=True
SortedByPriorityAscending(comps) ==
    SortedDesc(comps, [i \in 1..Len(comps) |-> 0 - Get(comps[i], "priority", 0)])

\* sorted(self.components, key=lambda x: x.get('priority', 0), reverse=True)
SortedByPriority(comps) ==
    SortedDesc(comps, [i \in 1..Len(comps) |-> Get(comps[i], "priority", 0)])

\* html_parts of _generate_html_structure, when no fragment raises
HtmlParts(comps) ==
    LET sorted_components == SortedByPriority(comps)
    IN  NonEmpty([i \in 1..Len(sorted_components) |->
                    GenerateComponentHtml(sorted_components[i]).html])

\* _generate_html_structure: the first fragment that raises ends it
GenerateHtmlStructure(comps) ==
    LET sorted_components == SortedByPriority(comps)
        bad == {i \in 1..Len(sorted_components) :
                   GenerateComponentHtml(sorted_components[i]).err # ""}
    IN  IF bad # {}
        THEN Raised(GenerateComponentHtml(
                 sorted_components[CHOOSE i \in bad : \A j \in bad : i <= j]).err)
        ELSE Returned(Join(HtmlParts(comps), NL))

-----------------------------------------------------------------------------
(* The component extractor.  An extraction step yields err, the exception  *)
(* it raised ("" if none), and comps, self.components as it leaves them.   *)

\* for style_data in computed_styles: if <the record matches>:
\*     styles.update(style_data.get('styles', {}))
\* with matches[i] telling whether record i matches
RECURSIVE MergeStyles(_, _, _)
MergeStyles(records, matches, merged) ==
    IF records = <<>> THEN merged
    ELSE MergeStyles(Tail(records), Tail(matches),
                     IF Head(matches)
                     THEN PairsUpdate(merged, Get(Head(records), "styles", <<>>))
                     ELSE merged)

\* 'nav' in style_data.get('selector', '').lower(), and the like
SelectorHas(word, records) ==
    [i \in 1..Len(records) |->
        Contains(word, Lower(Get(records[i], "selector", <<>>)))]

\* style_data.get('label', '').lower() in [...]
LabelIn(words, records) ==
    [i \in 1..Len(records) |-> Lower(Get(records[i], "label", <<>>)) \in words]

\* self.scraped_data.get('computed_styles', [])
ComputedStyles(sd) == Get(sd, "computed_styles", <<>>)

\* _extract_navigation_component: <<>> stands for the None of line 72
ExtractNavigationComponent(sd) ==
    LET nav_elements ==
            Get(Get(sd, "semantic_analysis", <<>>), "navigation_elements", <<>>)
    IN  IF nav_elements = <<>> THEN [err |-> "", found |-> <<>>]
        ELSE IF ComputedStyles(sd) = NoneList
        THEN [err |-> "TypeError", found |-> <<>>]
        ELSE [err |-> "",
              found |-> <<[type |-> "navigation",
                           styles |-> MergeStyles(ComputedStyles(sd),
                                         SelectorHas(kw_nav, ComputedStyles(sd)),
                                         <<>>),
                           data |-> nav_elements[1],
                           priority |-> 10]>>]

\* _extract_header_component reading text_content['header'] instead of
\* text_content.get('header', ''): KeyError when the key is missing
ExtractHeaderComponentStrict(sd) ==
    LET text_content == Get(sd, "text_content", <<>>)
    IN  IF "header" \notin DOMAIN text_content
        THEN [err |-> "KeyError", found |-> <<>>]
        ELSE [err |-> "",
              found |-> <<[type |-> "header", styles |-> <<>>,
                           content |-> text_content.header,
                           priority |-> 9]>>]

\* _extract_header_component
ExtractHeaderComponent(sd) ==
    LET text_content == Get(sd, "text_content", <<>>)
    IN  IF "none" \in DOMAIN text_content
        THEN [err |-> "AttributeError", found |-> <<>>]
        ELSE IF ComputedStyles(sd) = NoneList
        THEN [err |-> "TypeError", found |-> <<>>]
        ELSE [err |-> "",
              found |-> <<[type |-> "header",
                           styles |-> MergeStyles(ComputedStyles(sd),
                                         LabelIn({kw_header, kw_main_heading},
                                                 ComputedStyles(sd)),
                                         <<>>),
                           content |-> Get(text_content, "header", <<>>),
                           priority |-> 9]>>]

\* _extract_content_sections without the `if main_content` of line 113
ExtractContentSectionsAlways(sd) ==
    LET text_content == Get(sd, "text_content", <<>>)
    IN  IF "none" \in DOMAIN text_content
        THEN [err |-> "AttributeError", found |-> <<>>]
        ELSE [err |-> "",
              found |-> <<[type |-> "main_content", styles |-> <<>>,
                           content |-> Get(text_content, "main", <<>>),
                           headings |-> Get(text_content, "headings", <<>>),
                           paragraphs |-> Get(text_content, "paragraphs", <<>>),
                           priority |-> 8]>>]

\* _extract_content_sections
ExtractContentSections(sd) ==
    LET text_content == Get(sd, "text_content", <<>>)
    IN  IF "none" \in DOMAIN text_content
        THEN [err |-> "AttributeError", found |-> <<>>]
        ELSE IF ~Truthy(Get(text_content, "main", <<>>))
        THEN [err |-> "", found |-> <<>>]
        ELSE IF ComputedStyles(sd) = NoneList
        THEN [err |-> "TypeError", found |-> <<>>]
        ELSE [err |-> "",
              found |-> <<[type |-> "main_content",
                           styles |-> MergeStyles(ComputedStyles(sd),
                                         LabelIn({kw_main_content, kw_paragraph},
                                                 ComputedStyles(sd)),
                                         <<>>),
                           content |-> Get(text_content, "main", <<>>),
                           headings |-> Get(text_content, "headings", <<>>),
                           paragraphs |-> Get(text_content, "paragraphs", <<>>),
                           priority |-> 8]>>]

\* _extract_footer_component
ExtractFooterComponent(sd) ==
    LET text_content == Get(sd, "text_content", <<>>)
    IN  IF "none" \in DOMAIN text_content
        THEN [err |-> "AttributeError", found |-> <<>>]
        ELSE IF ComputedStyles(sd) = NoneList
        THEN [err |-> "TypeError", found |-> <<>>]
        ELSE [err |-> "",
              found |-> <<[type |-> "footer",
                           styles |-> MergeStyles(ComputedStyles(sd),
                                         SelectorHas(kw_footer, ComputedStyles(sd)),
                                         <<>>),
                           content |-> Get(text_content, "footer", <<>>),
                           priority |-> 5]>>]

\* the three `if zone in ...` of lines 46, 52 and 62 taken to be true
ZoneDetectedAlways(sd, zone) == TRUE

\* `zone in semantic_analysis.get('sections', [])` of lines 46, 52 and 62
ZoneDetected(sd, zone) ==
    LET sections == Get(Get(sd, "semantic_analysis", <<>>), "sections", <<>>)
    IN  \E i \in 1..Len(sections) : sections[i] = zone

\* one of the four blocks of _analyze_page_components: append what the
\* extraction found, unless an earlier block or the extraction raised
AfterExtraction(before, wanted, extraction) ==
    IF before.err # "" \/ ~wanted THEN before
    ELSE [err |-> extraction.err, comps |-> before.comps \o extraction.found]

\* _analyze_page_components with the footer block of lines 61-65 moved
\* before the content block of lines 57-59
AnalyzePageComponentsFooterFirst(sd, comps) ==
    LET semantic_analysis == Get(sd, "semantic_analysis", <<>>)
    IN  IF "none" \in DOMAIN semantic_analysis
        THEN [err |-> "AttributeError", comps |-> comps]
        ELSE IF Get(semantic_analysis, "sections", <<>>) = NoneVal
        THEN [err |-> "TypeError", comps |-> comps]
        ELSE LET s0 == [err |-> "", comps |-> comps]
                 s1 == AfterExtraction(s0, ZoneDetected(sd, "nav"),
                                       ExtractNavigationComponent(sd))
                 s2 == AfterExtraction(s1, ZoneDetected(sd, "header"),
                                       ExtractHeaderComponent(sd))
                 s3 == AfterExtraction(s2, ZoneDetected(sd, "footer"),
                                       ExtractFooterComponent(sd))
             IN  AfterExtraction(s3, TRUE, ExtractContentSections(sd))

\* _analyze_page_components.  Line 46 raises AttributeError when
\* semantic_analysis is None and TypeError when sections is None.
AnalyzePageComponents(sd, comps) ==
    LET semantic_analysis == Get(sd, "semantic_analysis", <<>>)
    IN  IF "none" \in DOMAIN semantic_analysis
        THEN [err |-> "AttributeError", comps |-> comps]
        ELSE IF Get(semantic_analysis, "sections", <<>>) = NoneVal
        THEN [err |-> "TypeError", comps |-> comps]
        ELSE LET s0 == [err |-> "", comps |-> comps]
                 s1 == AfterExtraction(s0, ZoneDetected(sd, "nav"),
                                       ExtractNavigationComponent(sd))
                 s2 == AfterExtraction(s1, ZoneDetected(sd, "header"),
                                       ExtractHeaderComponent(sd))
                 s3 == AfterExtraction(s2, TRUE, ExtractContentSections(sd))
             IN  AfterExtraction(s3, ZoneDetected(sd, "footer"),
                                 ExtractFooterComponent(sd))

-----------------------------------------------------------------------------
(* The CSS synthesizer.  Of a template the rule bodies that interpolate  *)
(* nothing are abridged to {...}: the text is fixed and no step reads it.  *)

d_primary == <<"#","0","0","7","b","f","f">>

d_text == <<"#","3","3","3","3","3","3">>

d_background == <<"#","f","f","f","f","f","f">>

d_font == <<"A","r","i","a","l",","," ","s","a","n","s","-","s","e","r","i","f">>

d_bg_light ==
    <<"v","a","r","(","-","-","c","o","l","o","r","-","b","a","c","k","g","r",
      "o","u","n","d","-","l","i","g","h","t",")">>

d_var_primary ==
    <<"v","a","r","(","-","-","c","o","l","o","r","-","p","r","i","m","a","r","y",")">>

d_white == <<"w","h","i","t","e">>

ResetCss == "/* CSS Reset */ * {...} body {...} img {...} a {...} button {...}"

VarsOpen == "/* CSS Variables */ :root { --color-primary: "

VarsToText == "; --color-secondary: #6c757d; --color-text: "

VarsToBackground == "; --color-text-light: #666666; --color-background: "

VarsToFont ==
    "; --color-background-light: #f8f9fa; --color-border: #e0e0e0; --font-primary: "

VarsClose == "; --font-size-base: 16px; ... --transition: all 0.3s ease; }"

NavCssOpen == "/* Navigation */ .navbar { background-color: "

NavCssClose == "; padding: ...} .navbar .container {...} ... .navbar-nav a:hover {...}"

HeaderCssOpen == "/* Header */ .hero { background: "

HeaderCssToColor == "; color: "

HeaderCssClose == "; padding: ...} .hero h1 {...} .hero p {...} .hero .btn {...} .hero .btn:hover {...}"

MainCss == "/* Main Content */ .main-content {...} ... .btn:hover {...}"

FooterCssOpen == "/* Footer */ .footer { background: "

FooterCssClose == "; padding: ...} .footer p {...}"

LayoutCss == "/* Layout */ .container {...} .container-fluid {...} .section {...}"

GridCss == "\n.grid { display: grid; gap: var(--spacing-lg); grid-template-columns: repeat(auto-fit, minmax(300px, 1fr)); }"

FlexCss == "\n.flex {...} .flex-wrap {...} .flex-center {...}"

ResponsiveOpen == "/* Responsive Design */ @media (max-width: "

TabletWidth == <<"7","6","8","p","x">>

ResponsiveToPhone == ") {...} @media (max-width: "

PhoneWidth == <<"4","8","0","p","x">>

ResponsiveClose == ") {...}"

\* the template of lines 465-507: both widths are part of its text
ResponsiveCss ==
    <<ResponsiveOpen>> \o TabletWidth \o <<ResponsiveToPhone>> \o PhoneWidth
        \o <<ResponsiveClose>>

\* the default of line 463
DefaultBreakpoints == <<768, 1024>>

\* str(n) for a natural number
RECURSIVE StrOfInt(_)
StrOfInt(n) ==
    IF n < 10 THEN <<DigitChars[n + 1]>>
    ELSE StrOfInt(n \div 10) \o <<DigitChars[(n % 10) + 1]>>

\* colors.get(name, [default])[0] if colors.get(name) else default
FirstColor(token_colors, name, default) ==
    IF Get(token_colors, name, <<>>) # <<>> THEN token_colors[name][1]
    ELSE default

\* _generate_css_variables
GenerateCssVariables(dt) ==
    LET token_colors == Get(dt, "colors", <<>>)
        typography == Get(dt, "typography", <<>>)
    IN  IF "none" \in DOMAIN token_colors \/ "none" \in DOMAIN typography
        THEN Raised("AttributeError")
        ELSE Returned(<<VarsOpen>>
                      \o PyStr(FirstColor(token_colors, "primary", d_primary))
                      \o <<VarsToText>>
                      \o PyStr(FirstColor(token_colors, "text", d_text))
                      \o <<VarsToBackground>>
                      \o PyStr(FirstColor(token_colors, "background",
                                          d_background))
                      \o <<VarsToFont>>
                      \o PyStr(Get(typography, "primary_font", d_font))
                      \o <<VarsClose>>)

\* _generate_navigation_css
GenerateNavigationCss(styles) ==
    <<NavCssOpen>> \o PyStr(PairsGet(styles, p_backgroundColor, d_bg_light))
        \o <<NavCssClose>>

\* _generate_header_css
GenerateHeaderCss(styles) ==
    <<HeaderCssOpen>>
        \o PyStr(PairsGet(styles, p_backgroundColor, d_var_primary))
        \o <<HeaderCssToColor>> \o PyStr(PairsGet(styles, p_color, d_white))
        \o <<HeaderCssClose>>

\* _generate_main_content_css
GenerateMainContentCss(styles) == <<MainCss>>

\* _generate_footer_css
GenerateFooterCss(styles) ==
    <<FooterCssOpen>> \o PyStr(PairsGet(styles, p_backgroundColor, d_bg_light))
        \o <<FooterCssClose>>

\* _generate_component_css with the main-content template for every type
\* that is not navigation, header or footer
GenerateComponentCssDefaultMain(component) ==
    LET component_type == Get(component, "type", "")
        styles == Get(component, "styles", <<>>)
    IN  IF component_type = "navigation" THEN GenerateNavigationCss(styles)
        ELSE IF component_type = "header" THEN GenerateHeaderCss(styles)
        ELSE IF component_type = "footer" THEN GenerateFooterCss(styles)
        ELSE GenerateMainContentCss(styles)

\* _generate_component_css
GenerateComponentCss(component) ==
    LET component_type == Get(component, "type", "")
        styles == Get(component, "styles", <<>>)
    IN  IF component_type = "navigation" THEN GenerateNavigationCss(styles)
        ELSE IF component_type = "header" THEN GenerateHeaderCss(styles)
        ELSE IF component_type = "main_content"
        THEN GenerateMainContentCss(styles)
        ELSE IF component_type = "footer" THEN GenerateFooterCss(styles)
        ELSE <<>>

\* _generate_layout_css with an `if` for `elif` at line 443 and the flex
\* classes added for grid as well
GenerateLayoutCssBoth(la) ==
    LET layout_type == Get(la, "layout_type", "block")
    IN  IF layout_type = "grid" THEN <<LayoutCss, GridCss, FlexCss>>
        ELSE IF layout_type = "flexbox" THEN <<LayoutCss, FlexCss>>
        ELSE <<LayoutCss>>

\* _generate_layout_css, for a layout_analysis that is a dict
GenerateLayoutCss(la) ==
    LET layout_type == Get(la, "layout_type", "block")
    IN  IF layout_type = "grid" THEN <<LayoutCss, GridCss>>
        ELSE IF layout_type = "flexbox" THEN <<LayoutCss, FlexCss>>
        ELSE <<LayoutCss>>

\* _generate_responsive_css with the first detected breakpoint as the first
\* width
GenerateResponsiveCssFromBreakpoints(sd) ==
    LET breakpoints == Get(Get(sd, "responsive_info", <<>>), "breakpoints",
                           DefaultBreakpoints)
    IN  <<ResponsiveOpen>>
        \o (IF breakpoints # <<>> THEN StrOfInt(breakpoints[1]) \o <<"p","x">>
            ELSE TabletWidth)
        \o <<ResponsiveToPhone>> \o PhoneWidth \o <<ResponsiveClose>>

\* _generate_responsive_css, for a responsive_info that is a dict: line
\* 463 reads the breakpoints and nothing uses them
GenerateResponsiveCss(sd) ==
    LET breakpoints == Get(Get(sd, "responsive_info", <<>>), "breakpoints",
                           DefaultBreakpoints)
    IN  ResponsiveCss

\* _generate_enhanced_css
GenerateEnhancedCss(sd, dt, la, comps) ==
    LET variables == GenerateCssVariables(dt)
    IN  IF variables.err # "" THEN variables
        ELSE IF "none" \in DOMAIN la THEN Raised("AttributeError")
        ELSE IF "none" \in DOMAIN Get(sd, "responsive_info", <<>>)
        THEN Raised("AttributeError")
        ELSE LET css_parts ==
                    <<<<ResetCss>>, variables.html>>
                    \o NonEmpty([i \in 1..Len(comps) |->
                                    GenerateComponentCss(comps[i])])
                    \o <<GenerateLayoutCss(la), GenerateResponsiveCss(sd)>>
             IN  Returned(Join(NonEmpty(css_parts), BlankLine))

-----------------------------------------------------------------------------
(* Assembly and the fallback *)

DocOpen == "<!DOCTYPE html><html lang=\"en\"><head><meta charset=\"UTF-8\"><meta name=\"viewport\" content=\"width=device-width, initial-scale=1.0\"><title>"

DocTitleToStyle == "</title><style>\n"

DocStyleToBody == "\n</style></head><body>\n"

DocClose == "\n</body></html>"

FallbackDoc == "<!DOCTYPE html><html lang=\"en\"><head>...<title>Website Clone</title><style>...</style></head><body><div class=\"container\"><h1>Website Clone</h1><p>AI enhancement failed, but basic structure generated.</p></div></body></html>"

\* _combine_html_and_css
CombineHtmlAndCss(sd, html, style) ==
    LET text_content == Get(sd, "text_content", <<>>)
    IN  IF "none" \in DOMAIN text_content THEN Raised("AttributeError")
        ELSE Returned(<<DocOpen>>
                      \o PyStr(Get(text_content, "title", t_ClonedWebsite))
                      \o <<DocTitleToStyle>> \o style \o <<DocStyleToBody>>
                      \o html \o <<DocClose>>)

\* a fallback that is the empty string
FallbackHtmlEmpty == <<>>

\* _fallback_html
FallbackHtml == <<FallbackDoc>>

\* a handler that is `except AttributeError`
IsExceptionAttributeOnly(kind) == kind = "AttributeError"

\* `except Exception` catches every exception the steps raise
IsException(kind) == kind \in {"AttributeError", "TypeError"}

-----------------------------------------------------------------------------
(* Inputs of the HTML synthesizer *)

x_HelloWorld ==
    <<"W","e","l","c","o","m","e","\n","\n","H","e","l","l","o"," ",
      "w","o","r","l","d">>

x_TitleSub == <<"A","c","m","e","\n","W","e"," ","b","u","i","l","d">>

x_Foot == <<"A","c","m","e"," ","I","n","c">>

x_Legal == <<"L","e","g","a","l">>

x_Late == <<"L","a","t","e">>

x_Page == <<"A","c","m","e"," ","H","o","m","e">>

\* a text of n letters, no two neighbours equal
Mk(n) == [i \in 1..n |-> LowerChars[((i - 1) % 26) + 1]]

\* the lengths around a limit
Around(limit) == {limit - 1, limit, limit + 1}

NavElement == [tag |-> "nav", links |-> 4]

CompNav ==
    [type |-> "navigation", styles |-> <<>>, data |-> NavElement,
     priority |-> 10]

HeaderWith(content) ==
    [type |-> "header", styles |-> <<>>, content |-> content, priority |-> 9]

MainWith(content, headings, paragraphs) ==
    [type |-> "main_content", styles |-> <<>>, content |-> content,
     headings |-> headings, paragraphs |-> paragraphs, priority |-> 8]

FooterWith(content) ==
    [type |-> "footer", styles |-> <<>>, content |-> content, priority |-> 5]

\* a header that carries no priority: line 516 takes 0
CompHeaderUnranked ==
    [type |-> "header", styles |-> <<>>, content |-> x_Late]

\* the components whose order is examined; the two footers have the same
\* priority and different fragments
OrderPool ==
    {CompNav, HeaderWith(x_TitleSub), MainWith(x_HelloWorld, <<>>, <<>>),
     FooterWith(x_Foot), FooterWith(x_Legal), CompHeaderUnranked}

MaxComponents == 4

OrderLists == UNION {[1..n -> OrderPool] : n \in 0..MaxComponents}

\* header content of two lines of a and b letters
TwoLines(a, b) == Mk(a) \o NL \o Mk(b)

\* main text of three parts of h, p and q letters
ThreeParts(h, p, q) == Mk(h) \o BlankLine \o Mk(p) \o BlankLine \o Mk(q)

TwoHeadings == <<[text |-> <<"O","n","e">>], [text |-> <<"T","w","o">>]>>

\* the components whose texts are at, just under and just over the limits
LongHeaders ==
    {HeaderWith(TwoLines(a, b)) :
        a \in Around(TitleLimit), b \in Around(SubtitleLimit)}
    \cup {HeaderWith(Mk(a)) : a \in Around(TitleLimit)}

LongMains ==
    {MainWith(ThreeParts(h, p, q), <<>>, <<>>) :
        h \in Around(HeadingLimit), p \in Around(ParagraphLimit),
        q \in {ParagraphLimit, ParagraphLimit + 1}}
    \cup {MainWith(x_HelloWorld, TwoHeadings, <<Mk(p)>>) :
            p \in Around(ParagraphLimit)}
    \cup {MainWith(x_HelloWorld, TwoHeadings, <<Mk(p), Mk(q)>>) :
            p \in Around(ParagraphLimit),
            q \in {ParagraphLimit, ParagraphLimit + 1}}

LongFooters == {FooterWith(Mk(f)) : f \in Around(FooterLimit)}

\* one component, or a header, a main content and a footer together
LongLists ==
    {<<c>> : c \in LongHeaders \cup LongMains \cup LongFooters}
    \cup {<<HeaderWith(TwoLines(TitleLimit + d, SubtitleLimit + d)),
            MainWith(ThreeParts(HeadingLimit + d, ParagraphLimit + d,
                                ParagraphLimit + d), <<>>, <<>>),
            FooterWith(Mk(FooterLimit + d))>> : d \in {0, 1}}
    \cup {<<HeaderWith(TwoLines(TitleLimit + d, SubtitleLimit + d)),
            MainWith(x_HelloWorld, TwoHeadings,
                     <<Mk(ParagraphLimit + d), Mk(ParagraphLimit + d)>>),
            FooterWith(Mk(FooterLimit + d))>> : d \in {0, 1}}

-----------------------------------------------------------------------------
(* Specifications *)

\* the variables of a part that a specification does not exercise
ColorIdle ==
    /\ computed_styles = <<>>
    /\ scan_pos = 0
    /\ color_usage = <<>>
    /\ colors = EmptyColors
    /\ color_pc = "unused"

GenIdle ==
    /\ scraped_data = <<>>
    /\ design_tokens = <<>>
    /\ layout_analysis = <<>>
    /\ components = <<>>
    /\ caller = "none"
    /\ pc = "unused"
    /\ error = ""
    /\ failed_at = ""
    /\ css = <<>>
    /\ html_structure = <<>>
    /\ result = <<>>
    /\ outputs = <<>>
    /\ entry_result = <<>>

CloneIdle ==
    /\ request_url = <<>>
    /\ clone_pc = "unused"
    /\ rendered = <<>>
    /\ clone_error = ""
    /\ clone_response = [kind |-> "none"]

SummaryIdle ==
    /\ computed_styles_str = <<>>
    /\ typography_info = <<>>
    /\ layout_info = <<>>
    /\ spacing_info = <<>>
    /\ summary_pc = "unused"

FormatIdle ==
    /\ styles_info = <<>>
    /\ formatted_styles = <<>>
    /\ style_pos = 0
    /\ styles_result = [kind |-> "none"]

PairIdle ==
    /\ generators = <<>>
    /\ lists = <<>>

RenderIdle ==
    /\ render_url = <<>>
    /\ render_pc = "unused"
    /\ render_locals = <<>>
    /\ render_error = ""
    /\ browser_closed = FALSE
    /\ render_result = [kind |-> "none"]

MoreIdle == CloneIdle /\ SummaryIdle /\ FormatIdle /\ PairIdle /\ RenderIdle

(* intelligent_color_extraction on every list of up to MaxRecords records *)

ColorInit ==
    /\ computed_styles \in StyleLists
    /\ scan_pos = 1
    /\ color_usage = <<>>
    /\ colors = EmptyColors
    /\ color_pc = "scan"
    /\ GenIdle
    /\ MoreIdle

\* one iteration of the loop of line 742
ScanRecord ==
    /\ color_pc = "scan"
    /\ scan_pos <= Len(computed_styles)
    /\ color_usage' =
          ScanStyles(color_usage, Get(computed_styles[scan_pos], "styles", <<>>))
    /\ scan_pos' = scan_pos + 1
    /\ UNCHANGED <<computed_styles, colors, color_pc, gen_vars, more_vars>>

\* lines 751-764: rank, classify the window, return
Categorize ==
    /\ color_pc = "scan"
    /\ scan_pos > Len(computed_styles)
    /\ colors' = CategorizeColors(colors, TopWindow(SortedByUsage(color_usage)))
    /\ color_pc' = "done"
    /\ UNCHANGED <<computed_styles, scan_pos, color_usage, gen_vars,
                   more_vars>>

ColorNext == ScanRecord \/ Categorize

SpecColor == ColorInit /\ [][ColorNext]_vars

(* _generate_html_structure on component lists in every order *)

\* line 29 of generate_enhanced_html
GenerateHtml ==
    /\ pc = "css_done"
    /\ LET r == GenerateHtmlStructure(components)
       IN  /\ html_structure' = r.html
           /\ error' = r.err
           /\ failed_at' = IF r.err = "" THEN "" ELSE "html"
           /\ pc' = IF r.err = "" THEN "html_done" ELSE "raised"
    /\ UNCHANGED <<scraped_data, design_tokens, layout_analysis, components,
                   caller, css, result, outputs, entry_result, color_vars,
                   more_vars>>

HtmlInit ==
    /\ components \in OrderLists \cup LongLists
    /\ pc = "css_done"
    /\ scraped_data = <<>>
    /\ design_tokens = <<>>
    /\ layout_analysis = <<>>
    /\ caller = "none"
    /\ error = ""
    /\ failed_at = ""
    /\ css = <<>>
    /\ html_structure = <<>>
    /\ result = <<>>
    /\ outputs = <<>>
    /\ entry_result = <<>>
    /\ ColorIdle
    /\ MoreIdle

HtmlNext == GenerateHtml

SpecHtml == HtmlInit /\ [][HtmlNext]_vars

-----------------------------------------------------------------------------
(* Inputs of the pipeline.  A Snapshot is put together from the keys that  *)
(* are present; a key that is absent contributes the empty function.       *)

v_navy == <<"#","0","0","1","f","3","f">>

s_navbar == <<"n","a","v",".","N","a","v","B","a","r">>

s_footer == <<"d","i","v",".","s","i","t","e","-","F","O","O","T","E","R">>

l_Header == <<"H","e","a","d","e","r">>

l_MainHeading == <<"M","a","i","n"," ","H","e","a","d","i","n","g">>

l_Paragraph == <<"P","a","r","a","g","r","a","p","h">>

f_Georgia == <<"G","e","o","r","g","i","a",","," ","s","e","r","i","f">>

StyleNavbar ==
    [selector |-> s_navbar, styles |-> <<<<p_backgroundColor, v_navy>>>>]

StyleHero ==
    [label |-> l_Header, selector |-> kw_header,
     styles |-> <<<<p_backgroundColor, v_black>>, <<p_color, v_white>>>>]

StyleHeading ==
    [label |-> l_MainHeading, styles |-> <<<<p_color, v_red>>>>]

StyleParagraph ==
    [label |-> l_Paragraph, styles |-> <<<<p_color, v_hex_000>>>>]

StyleSiteFooter ==
    [selector |-> s_footer, styles |-> <<<<p_backgroundColor, v_hex_000>>>>]

\* the sections lists: main with every subset of nav, header and footer
SectionLists ==
    {<<"main">>, <<"nav", "main">>, <<"header", "main">>, <<"main", "footer">>,
     <<"header", "nav", "main">>, <<"nav", "main", "footer">>,
     <<"header", "main", "footer">>, <<"header", "nav", "main", "footer">>}

SemanticPool ==
    {[sections |-> s, navigation_elements |-> <<NavElement>>] :
        s \in SectionLists}
    \cup {[sections |-> <<"nav", "main">>, navigation_elements |-> <<>>],
          [sections |-> <<"header", "nav", "main", "footer">>],
          [sections |-> NoneVal, navigation_elements |-> <<NavElement>>],
          NoneDict}

TextPool ==
    {[header |-> x_TitleSub, main |-> x_HelloWorld, footer |-> x_Foot,
      title |-> x_Page],
     [header |-> x_TitleSub, main |-> x_HelloWorld, footer |-> x_Foot,
      headings |-> TwoHeadings, paragraphs |-> <<x_Legal>>],
     [header |-> <<>>, main |-> <<>>, footer |-> <<>>, title |-> NoneVal],
     [header |-> NoneVal, main |-> x_HelloWorld, footer |-> x_Foot],
     NoneDict}

ComputedStylesPool ==
    {<<StyleNavbar, StyleHero, StyleHeading, StyleParagraph, StyleSiteFooter>>,
     NoneList}

\* the Snapshots: each key present with a value of its pool, or absent
Snapshots ==
    {sa @@ tc @@ cs :
        sa \in {<<>>} \cup {[semantic_analysis |-> x] : x \in SemanticPool},
        tc \in {<<>>} \cup {[text_content |-> x] : x \in TextPool},
        cs \in {<<>>} \cup {[computed_styles |-> x] : x \in ComputedStylesPool}}
    \cup {[semantic_analysis |-> [sections |-> <<"main">>],
           text_content |-> [main |-> x_HelloWorld],
           responsive_info |-> x] : x \in {[breakpoints |-> <<600>>], NoneDict}}
    \cup {NoneDict}

\* design_tokens together with layout_analysis
TokensAndLayouts ==
    {<<<<>>, <<>>>>,
     <<[colors |-> [primary |-> <<v_blue, v_red>>, text |-> <<>>,
                    background |-> <<v_hex_fff>>],
        typography |-> [primary_font |-> f_Georgia]],
       [layout_type |-> "grid"]>>,
     <<[colors |-> [primary |-> <<v_blue>>]], [layout_type |-> "flexbox"]>>,
     <<[colors |-> NoneDict], [layout_type |-> "grid"]>>,
     <<[typography |-> NoneDict], <<>>>>,
     <<<<>>, NoneDict>>,
     <<NoneDict, <<>>>>}

\* how many times the code holding a generator invokes the method
MaxRuns == 2

-----------------------------------------------------------------------------
(* The pipeline: generate_enhanced_html, module-level (lines 665-682) and  *)
(* method (lines 19-38)                                                    *)

\* line 670 (the constructor, lines 13-17) for the module-level function,
\* or the same constructor called by code that keeps the generator
Init ==
    /\ scraped_data \in Snapshots
    /\ \E tl \in TokensAndLayouts :
          design_tokens = tl[1] /\ layout_analysis = tl[2]
    /\ components = <<>>
    /\ caller \in {"generate_enhanced_html", "direct"}
    /\ pc = "idle"
    /\ error = ""
    /\ failed_at = ""
    /\ css = <<>>
    /\ html_structure = <<>>
    /\ result = <<>>
    /\ outputs = <<>>
    /\ entry_result = <<>>
    /\ ColorIdle
    /\ MoreIdle

\* the positions an invocation of the method can start from: the module-
\* level function invokes it once (line 673), other code again after a return
StartsFrom ==
    IF caller = "direct" THEN {"idle", "returned"} ELSE {"idle"}

\* line 23: self._analyze_page_components(); self.scraped_data.get raises
\* AttributeError when scraped_data is None
Analyze ==
    /\ pc \in StartsFrom
    /\ Len(outputs) < MaxRuns
    /\ LET r == IF "none" \in DOMAIN scraped_data
                THEN [err |-> "AttributeError", comps |-> components]
                ELSE AnalyzePageComponents(scraped_data, components)
       IN  /\ components' = r.comps
           /\ error' = r.err
           /\ failed_at' = IF r.err = "" THEN "" ELSE "analysis"
           /\ pc' = IF r.err = "" THEN "analyzed" ELSE "raised"
    /\ css' = <<>>
    /\ html_structure' = <<>>
    /\ UNCHANGED <<scraped_data, design_tokens, layout_analysis, caller,
                   result, outputs, entry_result, color_vars,
                   more_vars>>

\* line 26: css = self._generate_enhanced_css()
GenerateCss ==
    /\ pc = "analyzed"
    /\ LET r == IF "none" \in DOMAIN design_tokens THEN Raised("AttributeError")
                ELSE GenerateEnhancedCss(scraped_data, design_tokens,
                                         layout_analysis, components)
       IN  /\ css' = r.html
           /\ error' = r.err
           /\ failed_at' = IF r.err = "" THEN "" ELSE "css"
           /\ pc' = IF r.err = "" THEN "css_done" ELSE "raised"
    /\ UNCHANGED <<scraped_data, design_tokens, layout_analysis, components,
                   caller, html_structure, result, outputs, entry_result,
                   color_vars, more_vars>>

\* lines 32-34: full_html = self._combine_html_and_css(...); return full_html
Combine ==
    /\ pc = "html_done"
    /\ LET r == CombineHtmlAndCss(scraped_data, html_structure, css)
       IN  /\ error' = r.err
           /\ failed_at' = IF r.err = "" THEN "" ELSE "assembly"
           /\ pc' = IF r.err = "" THEN "returned" ELSE "raised"
           /\ result' = IF r.err = "" THEN r.html ELSE result
           /\ outputs' = IF r.err = "" THEN Append(outputs, r.html) ELSE outputs
    /\ UNCHANGED <<scraped_data, design_tokens, layout_analysis, components,
                   caller, css, html_structure, entry_result, color_vars,
                   more_vars>>

\* lines 36-38: an Exception is answered with the fallback document; what
\* is not an Exception leaves the method
Except ==
    /\ pc = "raised"
    /\ pc' = IF IsException(error) THEN "returned" ELSE "escaped"
    /\ result' = IF IsException(error) THEN FallbackHtml ELSE result
    /\ outputs' = IF IsException(error) THEN Append(outputs, FallbackHtml)
                  ELSE outputs
    /\ UNCHANGED <<scraped_data, design_tokens, layout_analysis, components,
                   caller, error, failed_at, css, html_structure, entry_result,
                   color_vars, more_vars>>

\* lines 675-682 of the module-level function: return enhanced_html, or
\* None from its own except clause
EntryReturn ==
    /\ caller = "generate_enhanced_html"
    /\ pc \in {"returned", "escaped"}
    /\ entry_result' = IF pc = "returned" THEN result ELSE NoneVal
    /\ pc' = "entry_done"
    /\ UNCHANGED <<scraped_data, design_tokens, layout_analysis, components,
                   caller, error, failed_at, css, html_structure, result,
                   outputs, color_vars,
                   more_vars>>

Next ==
    \/ Analyze
    \/ GenerateCss
    \/ GenerateHtml
    \/ Combine
    \/ Except
    \/ EntryReturn

Spec == Init /\ [][Next]_vars

-----------------------------------------------------------------------------
(* The claims about the pipeline *)

ComponentTypes == {"navigation", "header", "main_content", "footer"}

\* how many components of a type the list holds
HowMany(comps, type) ==
    Cardinality({i \in 1..Len(comps) : comps[i].type = type})

\* C2: any two invocations of generate_enhanced_html over the same
\* scraped_data, design_tokens and layout_analysis return the same document,
\* whatever was run before.
C2_SameDocument ==
    \A i, j \in 1..Len(outputs) : outputs[i] = outputs[j]

\* C3: after any number of invocations of generate_enhanced_html on a
\* generator, the component list holds at most one component of each type.
C3_OnePerType ==
    \A type \in ComponentTypes : HowMany(components, type) <= 1

\* C4: when a step of generate_enhanced_html (analysis, CSS synthesis, HTML
\* synthesis, assembly) has raised, the method returns, and what it returns
\* is exactly the fallback document: nothing of the css or of the fragments
\* built before the failure is in it.
C4_FallbackOnRaise ==
    (failed_at # "" /\ pc # "raised") =>
        /\ pc \in {"returned", "entry_done"}
        /\ result = <<FallbackDoc>>
        /\ outputs # <<>>
        /\ outputs[Len(outputs)] = <<FallbackDoc>>

\* the HTML step failed after components and css had been built, and the
\* method has returned the fallback document
C4_Witness ==
    /\ pc = "returned"
    /\ failed_at = "html"
    /\ components # <<>>
    /\ css # <<>>
    /\ result = <<FallbackDoc>>

\* the template text of a document, in order: what is left of it when the
\* interpolated characters are taken out
TemplateText(doc) ==
    LET IsMark(x) == x \in {DocOpen, DocTitleToStyle, DocStyleToBody, DocClose}
    IN  SelectSeq(doc, IsMark)

\* a synthesized document: opened, titled, styled, given a body and closed,
\* each once and in that order, with nothing before or after
IsCompleteDocument(doc) ==
    /\ doc # NoneVal
    /\ doc # <<>>
    /\ doc[1] = DocOpen
    /\ doc[Len(doc)] = DocClose
    /\ TemplateText(doc) = <<DocOpen, DocTitleToStyle, DocStyleToBody, DocClose>>

-----------------------------------------------------------------------------
(* What the claims about intelligent_color_extraction speak of, stated on  *)
(* the input alone.                                                        *)

RECURSIVE FlattenStyles(_)
FlattenStyles(records) ==
    IF records = <<>> THEN <<>>
    ELSE Get(Head(records), "styles", <<>>) \o FlattenStyles(Tail(records))

\* the property names of the inputs that contain "color" in any letter case
ColorProps ==
    {p_color, p_backgroundColor, p_borderColor, p_outlineColor,
     p_textDecorationColor, p_caretColor, p_BorderTopCOLOR}

\* For the input computed_styles:
\*   pairs     every (property, value) of every record, in scan order
\*   values    every value some color property carries, "" included
\*   nonEmpty  those values but ""
\*   count     the number of color properties that carry a value
\*   first     the position in pairs where a value is first carried
\*   top       the 10 highest-ranked values: by count descending, values of
\*             equal count in first-seen order
InputStats ==
    LET pairs == FlattenStyles(computed_styles)
        carried == {k \in 1..Len(pairs) : pairs[k][1] \in ColorProps}
        values == {pairs[k][2] : k \in carried}
        occ == [v \in values |-> {k \in carried : pairs[k][2] = v}]
        count == [v \in values |-> Cardinality(occ[v])]
        first == [v \in values |->
                    CHOOSE k \in occ[v] : \A m \in occ[v] : k <= m]
        nonEmpty == values \ {<<>>}
        before == [v \in nonEmpty |->
                    {w \in nonEmpty :
                        \/ count[w] > count[v]
                        \/ count[w] = count[v] /\ first[w] < first[v]}]
    IN  [pairs |-> pairs, values |-> values, nonEmpty |-> nonEmpty,
         count |-> count, first |-> first, before |-> before,
         top |-> {v \in nonEmpty : Cardinality(before[v]) < 10}]

BucketNames == {"primary", "secondary", "text", "background", "accent"}

Members ==
    colors.primary \o colors.secondary \o colors.text
        \o colors.background \o colors.accent

InBucket(b, v) == \E i \in 1..Len(colors[b]) : colors[b][i] = v

TimesIn(b, v) == Cardinality({i \in 1..Len(colors[b]) : colors[b][i] = v})

\* C1: no raw color string is in two buckets or twice in one, and every
\* member of every bucket is one of the 10 highest-ranked values.
C1_DisjointTopTen ==
    color_pc = "done" =>
        /\ \A i, j \in 1..Len(Members) : i # j => Members[i] # Members[j]
        /\ \A i \in 1..Len(Members) : Members[i] \in InputStats.top

C1_Witness ==
    /\ color_pc = "done"
    /\ Cardinality(InputStats.nonEmpty) > 10
    /\ Len(Members) = 10
    /\ colors.background # <<>> /\ colors.text # <<>>
    /\ colors.primary # <<>> /\ colors.accent # <<>>

\* the red, green and blue components of the rgb()/rgba() values of the inputs
RgbOf(v) ==
    CASE v = v_black -> <<0, 0, 0>>
      [] v = v_white -> <<255, 255, 255>>
      [] v = v_avg200 -> <<200, 200, 200>>
      [] v = v_avg100 -> <<100, 100, 100>>
      [] v = v_above200 -> <<201, 200, 200>>
      [] v = v_below100 -> <<99, 100, 100>>
      [] v = v_mid -> <<120, 130, 140>>
      [] v = v_mid2 -> <<150, 150, 150>>
      [] v = v_rgba_clear -> <<0, 0, 0>>
      [] v = v_rgba_white -> <<255, 255, 255>>

RgbValues ==
    {v_black, v_white, v_avg200, v_avg100, v_above200, v_below100, v_mid,
     v_mid2, v_rgba_clear, v_rgba_white}

\* the bucket the rule of the claim gives a value used n times: 3 * avg is
\* the sum of the components
RuleBucket(v, n) ==
    LET s == RgbOf(v)[1] + RgbOf(v)[2] + RgbOf(v)[3]
    IN  IF s > 3 * 200 THEN "background"
        ELSE IF s < 3 * 100 THEN "text"
        ELSE IF n > 3 THEN "primary"
        ELSE "accent"

\* C8: each top-10 rgb value is in the bucket its mean and its count give
\* (background if avg > 200, else text if avg < 100, else primary if used
\* more than 3 times, else accent), whatever property or record carried it.
C8_MeanRule ==
    color_pc = "done" =>
        LET st == InputStats
        IN  \A v \in st.top \cap RgbValues :
                \A b \in BucketNames :
                    InBucket(b, v) <=> b = RuleBucket(v, st.count[v])

\* black is a header's background color and is classified as text; the values
\* of mean exactly 200 and exactly 100 are classified, and one value is primary
C8_Witness ==
    /\ color_pc = "done"
    /\ \E k \in 1..Len(computed_styles) : computed_styles[k] = StyleHeader
    /\ InBucket("text", v_black)
    /\ InBucket("accent", v_avg200)
    /\ InBucket("accent", v_avg100)
    /\ InBucket("background", v_white)
    /\ InBucket("primary", v_mid)

\* the values of the inputs with no rgb( or fewer than three numbers
PlainValues ==
    {v_hex_fff, v_hex_000, v_red, v_blue, v_transparent, v_rgb_short}

\* C9: every one of the 10 highest-ranked values is exactly once in the
\* buckets background, text, primary, accent; a value with no parsable RGB
\* component is in accent if used at most 3 times and in primary otherwise.
C9_NoneDropped ==
    color_pc = "done" =>
        LET st == InputStats
        IN  \A v \in st.top :
                /\ TimesIn("background", v) + TimesIn("text", v)
                     + TimesIn("primary", v) + TimesIn("accent", v) = 1
                /\ v \in PlainValues =>
                     IF st.count[v] <= 3 THEN InBucket("accent", v)
                     ELSE InBucket("primary", v)

C9_Witness ==
    /\ color_pc = "done"
    /\ LET st == InputStats
       IN  /\ Cardinality(st.nonEmpty) > 10
           /\ \E v \in PlainValues \cap st.top : st.count[v] > 3
           /\ \E v \in PlainValues \cap st.top : st.count[v] <= 3

UsageKeys == {color_usage[k][1] : k \in 1..Len(color_usage)}

\* count of every key is the number of its occurrences; the classified
\* values are the 10 highest-ranked; every bucket keeps the ranking order
CountedAndRanked(st) ==
    /\ \A k \in 1..Len(color_usage) :
          color_usage[k][2] = st.count[color_usage[k][1]]
    /\ {Members[i] : i \in 1..Len(Members)} = st.top
    /\ \A b \in BucketNames :
          \A i, j \in 1..Len(colors[b]) :
              i < j => colors[b][i] \in st.before[colors[b][j]]

\* C10 as stated: every value of every property whose name contains "color"
\* is counted once per occurrence; the ranking is by count descending with
\* ties in first-seen order; only its first 10 are classified; the buckets
\* keep the ranking order.
C10_CountedRanked ==
    color_pc = "done" =>
        LET st == InputStats
        IN  UsageKeys = st.values /\ CountedAndRanked(st)

\* C10 amended: as C10, for the values that are not the empty string.
C10_NonEmptyCountedRanked ==
    color_pc = "done" =>
        LET st == InputStats
        IN  UsageKeys = st.nonEmpty /\ CountedAndRanked(st)

\* more than 10 values, two of them with equal counts on either side of the
\* cut, a property name in upper case counted, an empty value skipped, and
\* two values of equal count next to each other in a bucket
C10_Witness ==
    /\ color_pc = "done"
    /\ LET st == InputStats
       IN  /\ Cardinality(st.nonEmpty) > 10
           /\ <<>> \in st.values
           /\ \E k \in 1..Len(st.pairs) :
                 st.pairs[k][1] = p_BorderTopCOLOR /\ st.pairs[k][2] \in st.top
           /\ \E v \in st.top : \E w \in st.nonEmpty \ st.top :
                 st.count[v] = st.count[w]
           /\ \E b \in BucketNames : \E i \in 1..Len(colors[b]) :
                 i > 1 /\ st.count[colors[b][i]] = st.count[colors[b][i - 1]]

-----------------------------------------------------------------------------
(* The claims about the HTML synthesizer *)

\* the first n characters of s
Prefix(s, n) == IF Len(s) <= n THEN s ELSE [i \in 1..n |-> s[i]]

\* what stands between the first `open` and the next `close`
Between(seq, open, close) ==
    LET o == CHOOSE i \in 1..Len(seq) :
                seq[i] = open /\ \A j \in 1..(i - 1) : seq[j] # open
        c == CHOOSE i \in (o + 1)..Len(seq) :
                seq[i] = close /\ \A j \in (o + 1)..(i - 1) : seq[j] # close
    IN  SubSeq(seq, o + 1, c - 1)

\* what stands between each element of `opens` and the next `close`
RECURSIVE AllBetween(_, _, _)
AllBetween(seq, opens, close) ==
    LET os == {i \in 1..Len(seq) : seq[i] \in opens}
    IN  IF os = {} THEN <<>>
        ELSE LET o == CHOOSE i \in os : \A j \in os : i <= j
                 cs == {i \in (o + 1)..Len(seq) : seq[i] = close}
                 c == CHOOSE i \in cs : \A j \in cs : i <= j
             IN  <<SubSeq(seq, o + 1, c - 1)>>
                 \o AllBetween(SubSeq(seq, c + 1, Len(seq)), opens, close)

\* the paragraphs of the document, in order
ParagraphsShown ==
    AllBetween(html_structure, {SectionH2ToP, SectionOpenP}, SectionCloseP)

OneOfEachType ==
    \A i, j \in 1..Len(components) :
        i # j => components[i].type # components[j].type

\* C6: the title is the first 50 characters of the first line of the header
\* text, the subtitle the first 100 of the second line, each paragraph the
\* first 300 of its text and the footer the first 100 of the footer text: a
\* text of the limit length is emitted whole, a longer one cut to the limit.
C6_TruncationExact ==
    (pc = "html_done" /\ OneOfEachType) =>
        \A k \in 1..Len(components) :
            LET c == components[k]
            IN  /\ \A a \in Around(50), b \in Around(100) :
                     (c.type = "header" /\ c.content = TwoLines(a, b)) =>
                        /\ Between(html_structure, HeaderOpen, HeaderMid)
                             = Prefix(Mk(a), 50)
                        /\ Between(html_structure, HeaderMid, HeaderClose)
                             = Prefix(Mk(b), 100)
                /\ \A a \in Around(50) :
                     (c.type = "header" /\ c.content = Mk(a)) =>
                        Between(html_structure, HeaderOpen, HeaderMid)
                          = Prefix(Mk(a), 50)
                /\ \A f \in Around(100) :
                     (c.type = "footer" /\ c.content = Mk(f)) =>
                        Between(html_structure, FooterOpen, FooterClose)
                          = Prefix(Mk(f), 100)
                /\ \A h \in Around(100), p \in Around(300), q \in Around(300) :
                     (/\ c.type = "main_content"
                      /\ c.headings = <<>>
                      /\ c.content = ThreeParts(h, p, q)) =>
                        ParagraphsShown
                          = <<Prefix(Mk(p), 300), Prefix(Mk(q), 300)>>
                /\ \A p \in Around(300) :
                     (/\ c.type = "main_content"
                      /\ c.headings = TwoHeadings
                      /\ c.paragraphs = <<Mk(p)>>) =>
                        ParagraphsShown = <<Prefix(Mk(p), 300), t_ComingSoon>>
                /\ \A p \in Around(300), q \in Around(300) :
                     (/\ c.type = "main_content"
                      /\ c.headings = TwoHeadings
                      /\ c.paragraphs = <<Mk(p), Mk(q)>>) =>
                        ParagraphsShown
                          = <<Prefix(Mk(p), 300), Prefix(Mk(q), 300)>>

\* a document whose four texts were each one character over the limit
C6_Witness ==
    /\ pc = "html_done"
    /\ components = <<HeaderWith(TwoLines(51, 101)),
                      MainWith(ThreeParts(101, 301, 301), <<>>, <<>>),
                      FooterWith(Mk(101))>>
    /\ Len(Between(html_structure, HeaderOpen, HeaderMid)) = 50
    /\ Len(Between(html_structure, HeaderMid, HeaderClose)) = 100
    /\ Len(Between(html_structure, FooterOpen, FooterClose)) = 100
    /\ ParagraphsShown = <<Mk(300), Mk(300)>>

\* insertion of a component behind every one of at least its priority
InsertRanked(ranked, c) ==
    LET ahead == {i \in 1..Len(ranked) :
                    Get(ranked[i], "priority", 0) >= Get(c, "priority", 0)}
        n == Cardinality(ahead)
    IN  SubSeq(ranked, 1, n) \o <<c>> \o SubSeq(ranked, n + 1, Len(ranked))

\* the components by priority descending, equal priorities in list order
RECURSIVE Ranked(_)
Ranked(comps) ==
    IF comps = <<>> THEN <<>>
    ELSE InsertRanked(Ranked(SubSeq(comps, 1, Len(comps) - 1)),
                      comps[Len(comps)])

\* the tokens that open the four kinds of fragment, as they follow each other
Openers ==
    SelectSeq(html_structure,
              LAMBDA t : t \in {NavHtml, HeaderOpen, MainOpen, FooterOpen})

FourStandard ==
    {CompNav, HeaderWith(x_TitleSub), MainWith(x_HelloWorld, <<>>, <<>>),
     FooterWith(x_Foot)}

\* C7: the fragments follow a stable sort of the components by priority
\* descending; the components of priorities 10, 9, 8, 5, in whatever order,
\* come out as navigation, header, main_content, footer.
C7_StablePriorityOrder ==
    pc = "html_done" =>
        /\ html_structure =
              Join([i \in 1..Len(components) |->
                       GenerateComponentHtml(Ranked(components)[i]).html], NL)
        /\ (/\ Len(components) = 4
            /\ {components[i] : i \in 1..4} = FourStandard) =>
              Openers = <<NavHtml, HeaderOpen, MainOpen, FooterOpen>>

\* two footers of equal priority placed before the header and the
\* navigation: the fragments come out navigation first, the footers last
\* and in their list order
C7_Witness ==
    /\ pc = "html_done"
    /\ components = <<FooterWith(x_Legal), FooterWith(x_Foot),
                      HeaderWith(x_TitleSub), CompNav>>
    /\ html_structure[1] = NavHtml
    /\ AllBetween(html_structure, {FooterOpen}, FooterClose) = <<x_Legal, x_Foot>>

-----------------------------------------------------------------------------
(* The claims about component extraction, stated on the Snapshot *)

\* a dict that is None
IsNone(d) == "none" \in DOMAIN d

\* the zones the Snapshot lists as detected; none when the list is missing
DetectedZones ==
    LET sa == Get(scraped_data, "semantic_analysis", <<>>)
    IN  IF IsNone(sa) \/ Get(sa, "sections", <<>>) = NoneVal THEN {}
        ELSE {Get(sa, "sections", <<>>)[i] :
                 i \in 1..Len(Get(sa, "sections", <<>>))}

\* a field of the Snapshot's text_content, `default` when it is missing
SnapshotText(field, default) ==
    LET tc == Get(scraped_data, "text_content", <<>>)
    IN  IF IsNone(tc) THEN default ELSE Get(tc, field, default)

\* the navigation elements of the Snapshot
SnapshotNavElements ==
    LET sa == Get(scraped_data, "semantic_analysis", <<>>)
    IN  IF IsNone(sa) THEN <<>> ELSE Get(sa, "navigation_elements", <<>>)

\* the component analysis of the first invocation has completed
FirstAnalysisDone == pc = "analyzed" /\ outputs = <<>>

\* the HTML of the first invocation has been synthesized
FirstHtmlDone == pc = "html_done" /\ outputs = <<>>

\* the types of the components, in list order
TypesOf(comps) == [i \in 1..Len(comps) |-> comps[i].type]

\* the Snapshot of C11: no nav, header or footer zone, and a main text
OnlyMainText ==
    /\ DetectedZones \cap {"nav", "header", "footer"} = {}
    /\ Truthy(SnapshotText("main", <<>>))

\* the first content-section of the body is the heading "Welcome"
FirstSectionIsWelcome ==
    LET sections == {i \in 1..Len(html_structure) :
                        html_structure[i] \in {SectionOpenH2, SectionOpenP,
                                               WelcomeSection}}
        first == CHOOSE i \in sections : \A j \in sections : i <= j
        ends == {j \in (first + 1)..Len(html_structure) :
                    html_structure[j] \in {SectionH2ToP, SectionCloseH2}}
        end == CHOOSE j \in ends : \A k \in ends : j <= k
    IN  /\ sections # {}
        /\ html_structure[first] = SectionOpenH2
        /\ ends # {}
        /\ SubSeq(html_structure, first + 1, end - 1) = t_Welcome

\* what C11 says of every such Snapshot: the list is exactly [main_content],
\* the body is one main fragment ending in the call-to-action link, and no
\* navigation, header or footer fragment is in it
OnlyMainFragment ==
    /\ TypesOf(components) = <<"main_content">>
    /\ html_structure[1] = MainOpen
    /\ html_structure[Len(html_structure)] = MainClose
    /\ \A i \in 1..Len(html_structure) :
          html_structure[i] \notin {NavHtml, HeaderOpen, FooterOpen}

\* C11 as stated: for a Snapshot with no nav, header or footer zone and a
\* non-empty main text the component list is exactly [main_content] and the
\* body has the main fragment with its call-to-action link and no other
\* fragment; and for the main text "Welcome", blank line, "Hello world" the
\* first content-section is the heading "Welcome".
C11_OnlyMainWelcome ==
    (FirstHtmlDone /\ OnlyMainText) =>
        /\ OnlyMainFragment
        /\ SnapshotText("main", <<>>) = x_HelloWorld => FirstSectionIsWelcome

\* C11 amended: the heading "Welcome" is the first content-section when the
\* Snapshot has no headings or no paragraphs, so that the main text is what
\* is split into sections; the rest as stated.
C11_OnlyMainWelcomeFromText ==
    (FirstHtmlDone /\ OnlyMainText) =>
        /\ OnlyMainFragment
        /\ ( /\ SnapshotText("main", <<>>) = x_HelloWorld
             /\ \/ SnapshotText("headings", <<>>) = <<>>
                \/ SnapshotText("paragraphs", <<>>) = <<>> )
           => FirstSectionIsWelcome

\* the Snapshot of scenario 1 has been synthesized: main zone only, the
\* text "Welcome", blank line, "Hello world", no headings
C11_Witness ==
    /\ FirstHtmlDone
    /\ DetectedZones = {"main"}
    /\ SnapshotText("main", <<>>) = x_HelloWorld
    /\ SnapshotText("headings", <<>>) = <<>>
    /\ FirstSectionIsWelcome
    /\ ParagraphsShown = <<<<"H","e","l","l","o"," ","w","o","r","l","d">>>>

\* the zone a component type answers to
ZoneOfType ==
    [navigation |-> "nav", header |-> "header", footer |-> "footer"]

\* the components of a type, in list order
OfType(comps, type) == SelectSeq(comps, LAMBDA c : c.type = type)

\* C12: a navigation, header or footer component is in the component list
\* only if its zone is among the detected sections; and once the analysis
\* has completed, a detected header or footer zone has yielded its
\* component, with the zone's text as content even when that text is empty.
C12_ZoneGated ==
    /\ \A type \in DOMAIN ZoneOfType :
          HowMany(components, type) > 0 => ZoneOfType[type] \in DetectedZones
    /\ FirstAnalysisDone =>
          \A type \in {"header", "footer"} :
              ZoneOfType[type] \in DetectedZones =>
                  /\ HowMany(components, type) = 1
                  /\ OfType(components, type)[1].content
                        = SnapshotText(type, <<>>)

\* header and footer zones detected, no nav zone, every text empty: the
\* list holds a header and a footer with empty content and no navigation
C12_Witness ==
    /\ FirstAnalysisDone
    /\ DetectedZones = {"header", "main", "footer"}
    /\ SnapshotNavElements # <<>>
    /\ SnapshotText("header", NoneVal) = <<>>
    /\ SnapshotText("footer", NoneVal) = <<>>
    /\ TypesOf(components) = <<"header", "footer">>

\* C13: a main_content component is emitted if and only if the Snapshot's
\* main text is non-empty, whichever zones were detected, and it carries
\* the raw text with the headings and paragraphs lists of the Snapshot.
C13_MainIffText ==
    FirstAnalysisDone =>
        /\ HowMany(components, "main_content")
              = (IF Truthy(SnapshotText("main", <<>>)) THEN 1 ELSE 0)
        /\ \A i \in 1..Len(components) :
              components[i].type = "main_content" =>
                  /\ components[i].content = SnapshotText("main", <<>>)
                  /\ components[i].headings = SnapshotText("headings", <<>>)
                  /\ components[i].paragraphs
                        = SnapshotText("paragraphs", <<>>)

\* no zone list at all, a main text with headings and paragraphs: the one
\* component is main_content and carries the three
C13_Witness ==
    /\ FirstAnalysisDone
    /\ DetectedZones = {}
    /\ TypesOf(components) = <<"main_content">>
    /\ components[1].content = x_HelloWorld
    /\ components[1].headings = TwoHeadings
    /\ components[1].paragraphs = <<x_Legal>>

\* no data source of the Snapshot is None: each is a value or is missing
NoSourceIsNone ==
    /\ ~IsNone(scraped_data)
    /\ ~IsNone(Get(scraped_data, "semantic_analysis", <<>>))
    /\ Get(Get(scraped_data, "semantic_analysis", <<>>), "sections", <<>>)
          # NoneVal
    /\ ~IsNone(Get(scraped_data, "text_content", <<>>))
    /\ Get(scraped_data, "computed_styles", <<>>) # NoneList

\* the types whose source the Snapshot has, in extraction order
SourcedTypes ==
    (IF "nav" \in DetectedZones /\ SnapshotNavElements # <<>>
     THEN <<"navigation">> ELSE <<>>)
    \o (IF "header" \in DetectedZones THEN <<"header">> ELSE <<>>)
    \o (IF Truthy(SnapshotText("main", <<>>)) THEN <<"main_content">>
        ELSE <<>>)
    \o (IF "footer" \in DetectedZones THEN <<"footer">> ELSE <<>>)

\* C14: when semantic_analysis, sections, navigation_elements,
\* computed_styles, text_content or any of their fields is missing from
\* scraped_data, the component analysis does not raise: it completes and
\* the component list holds just the components whose source is there.
C14_MissingSourceOmits ==
    NoSourceIsNone =>
        /\ failed_at # "analysis"
        /\ FirstAnalysisDone => TypesOf(components) = SourcedTypes

\* every zone detected, but no navigation_elements, no text_content and no
\* computed_styles: header and footer are emitted with empty content and
\* empty styles, navigation and main_content are left out
C14_Witness ==
    /\ FirstAnalysisDone
    /\ DetectedZones = {"nav", "header", "main", "footer"}
    /\ DOMAIN scraped_data = {"semantic_analysis"}
    /\ "navigation_elements" \notin DOMAIN scraped_data.semantic_analysis
    /\ TypesOf(components) = <<"header", "footer">>
    /\ \A i \in 1..2 :
          components[i].content = <<>> /\ components[i].styles = <<>>

-----------------------------------------------------------------------------
(* clone_site (src/backend/hello.py) *)

u_example ==
    <<"h","t","t","p","s",":","/","/","e","x","a","m","p","l","e",".","c","o",
      "m">>

u_local ==
    <<"h","t","t","p",":","/","/","l","o","c","a","l","h","o","s","t",":","3",
      "0","0","0">>

u_bad ==
    <<"n","o","t"," ","a"," ","u","r","l">>

h_page ==
    <<"<","h","t","m","l",">","<","b","o","d","y",">","<","h","1",">","A","c",
      "m","e","<","/","h","1",">","<","/","b","o","d","y",">","<","/","h","t",
      "m","l",">">>

h_empty ==
    <<"<","h","t","m","l",">","<","b","o","d","y",">","<","/","b","o","d","y",
      ">","<","/","h","t","m","l",">">>

r_full ==
    <<"<","!","D","O","C","T","Y","P","E"," ","h","t","m","l",">","<","h","t",
      "m","l",">","<","b","o","d","y",">","A","c","m","e","<","/","b","o","d",
      "y",">","<","/","h","t","m","l",">">>

r_fragment ==
    <<"<","d","i","v",">","A","c","m","e","<","/","d","i","v",">">>

r_refusal ==
    <<"I"," ","c","a","n","n","o","t"," ","d","o"," ","t","h","a","t">>

r_blank ==
    <<" "," ">>

w_cant ==
    <<"c","a","n","'","t">>

w_cannot ==
    <<"c","a","n","n","o","t">>

w_basic ==
    <<"b","a","s","i","c"," ","s","t","r","u","c","t","u","r","e">>

w_notpossible ==
    <<"n","o","t"," ","p","o","s","s","i","b","l","e">>

w_toocomplex ==
    <<"t","o","o"," ","c","o","m","p","l","e","x">>

w_html ==
    <<"<","h","t","m","l">>

w_doctype ==
    <<"<","!","d","o","c","t","y","p","e">>

\* the names clone_site unpacks the renderer's result into (line 571)
UnpackCount == 9

\* the tuple get_rendered_html returns (rendered_scraper.py line 551):
\* cleaned_html, screenshot_base64, layout_summary, style_text,
\* visible_text_summary, computed_styles_str, js_behavior_summary,
\* section_colors, computed_styles_json, layout_structure
RenderedTuple(cleaned_html, styles_str, visible_text) ==
    <<cleaned_html, "screenshot", "layout counts", styles_str, visible_text,
      styles_str, "js summary", <<>>, <<>>, <<>>>>

\* what the renderer can hand back for a page
RenderedPages ==
    {RenderedTuple(h, s, t) :
        h \in {h_page, h_empty, r_fragment},
        s \in {<<>>, <<"a"," ","{","}">>, <<"{","\n","}">>},
        t \in {<<>>, <<"A","c","m","e">>}}

\* the exceptions get_rendered_html lets through: the browser launch of
\* rendered_scraper.py line 385 is outside its try, and its return of line
\* 551 reads names the except clause does not bind
RendererErrors == {"PlaywrightError", "TimeoutError", "UnboundLocalError"}

\* what the generative backend of line 721 can answer; "raised" stands for
\* an exception of the HTTP call or of the reply's decoding
LlmReplies == {<<"raised">>, <<>>, r_blank, r_refusal, r_fragment, r_full}

\* what generate_html_from_context returns (cloner.py catches its errors)
FallbackReplies == {r_fragment, r_full}

RefusalWords == {w_cant, w_cannot, w_basic, w_notpossible, w_toocomplex}

WrapOpen == "<!DOCTYPE html><html><head><title>Cloned Site</title></head><body>"

WrapClose == "</body></html>"

DetailPrefix == "Failed to clone website: "

\* a returned body and a raised HTTPException
Responded(html) == [kind |-> "return", html |-> html, status |-> "success"]

HttpError(code, detail) ==
    [kind |-> "raise", status_code |-> code, detail |-> detail]

\* lines 724-753 on the backend's reply: err is what is raised inside the
\* try, html what is returned otherwise
FinishHtml(reply, second) ==
    IF reply = <<"raised">> THEN Raised("Exception")
    ELSE IF reply = <<>> \/ Strip(reply) = <<>>
    THEN Raised("HTTPException")
    ELSE LET html == IF \E w \in RefusalWords : Contains(w, Lower(reply))
                     THEN second ELSE reply
         IN  IF Contains(w_html, Lower(html))
                \/ Contains(w_doctype, Lower(html))
             THEN Returned(html)
             ELSE Returned(<<WrapOpen>> \o html \o <<WrapClose>>)

\* lines 571-753: the unpacking raises ValueError unless the tuple has as
\* many elements as there are names
ProcessRendered(tuple, reply, second) ==
    IF Len(tuple) # UnpackCount THEN Raised("ValueError")
    ELSE FinishHtml(reply, second)

Urls == {u_example, u_local, u_bad}

CloneInit ==
    /\ request_url \in Urls
    /\ clone_pc = "start"
    /\ rendered = <<>>
    /\ clone_error = ""
    /\ clone_response = [kind |-> "none"]
    /\ ColorIdle
    /\ GenIdle
    /\ SummaryIdle
    /\ FormatIdle
    /\ PairIdle
    /\ RenderIdle

\* line 571, the call: the renderer returns its tuple
RenderReturns ==
    /\ clone_pc = "start"
    /\ rendered' \in RenderedPages
    /\ clone_pc' = "rendered"
    /\ UNCHANGED <<request_url, clone_error, clone_response, color_vars,
                   gen_vars, summary_vars, format_vars, pair_vars,
                   render_vars>>

\* line 571, the call: the renderer raises
RenderRaises ==
    /\ clone_pc = "start"
    /\ clone_error' \in RendererErrors
    /\ clone_pc' = "raised"
    /\ UNCHANGED <<request_url, rendered, clone_response, color_vars,
                   gen_vars, summary_vars, format_vars, pair_vars,
                   render_vars>>

\* lines 571-753: the unpacking, the summaries, the backend call, the
\* return
Process ==
    /\ clone_pc = "rendered"
    /\ \E reply \in LlmReplies, second \in FallbackReplies :
          LET r == ProcessRendered(rendered, reply, second)
          IN  /\ clone_error' = r.err
              /\ clone_pc' = IF r.err = "" THEN "done" ELSE "raised"
              /\ clone_response' = IF r.err = "" THEN Responded(r.html)
                                   ELSE clone_response
    /\ UNCHANGED <<request_url, rendered, color_vars, gen_vars,
                   summary_vars, format_vars, pair_vars,
                   render_vars>>

\* lines 755-757: except Exception -> raise HTTPException(500, ...)
CloneExcept ==
    /\ clone_pc = "raised"
    /\ clone_response' = HttpError(500, <<DetailPrefix, clone_error>>)
    /\ clone_pc' = "done"
    /\ UNCHANGED <<request_url, rendered, clone_error, color_vars, gen_vars,
                   summary_vars, format_vars, pair_vars,
                   render_vars>>

CloneNext == RenderReturns \/ RenderRaises \/ Process \/ CloneExcept

SpecClone == CloneInit /\ [][CloneNext]_vars

\* C15: when something inside clone_site fails (the renderer, the token
\* extraction, the generative backend), clone_site ends by returning a
\* response {html, status}; it does not end by raising.
C15_FailureReturnsFallback ==
    (clone_pc = "done" /\ clone_error # "") => clone_response.kind = "return"

-----------------------------------------------------------------------------
(* Two generators side by side.  A generator's fields are those of        *)
(* __init__; self.components holds the identity of a list object, and     *)
(* `lists` maps each list object to its elements.                         *)

Generators == {1, 2}

\* the Snapshots the two generators are given
PairSnapshots ==
    {[semantic_analysis |->
         [sections |-> <<"header", "nav", "main", "footer">>,
          navigation_elements |-> <<NavElement>>],
      text_content |-> [header |-> x_TitleSub, main |-> x_HelloWorld,
                        footer |-> x_Foot, title |-> x_Page],
      computed_styles |-> <<StyleNavbar, StyleHero, StyleSiteFooter>>],
     [semantic_analysis |-> [sections |-> <<"main", "footer">>],
      text_content |-> [main |-> x_Legal, footer |-> x_Legal]],
     [text_content |-> [main |-> x_HelloWorld, headings |-> TwoHeadings,
                        paragraphs |-> <<x_Legal>>]],
     [semantic_analysis |-> [sections |-> <<"header", "main">>],
      text_content |-> [header |-> NoneVal, main |-> x_Late]],
     [semantic_analysis |-> [sections |-> <<"nav", "header">>,
                             navigation_elements |-> <<NavElement>>],
      text_content |-> NoneDict]}

\* their design_tokens and layout_analysis
PairTokens ==
    {<<<<>>, <<>>>>,
     <<[colors |-> [primary |-> <<v_blue>>]], [layout_type |-> "grid"]>>,
     <<[colors |-> NoneDict], <<>>>>}

\* a constructor whose list is one object shared by every generator, as a
\* class attribute `components = []` would be
NewListShared(g) == 1

\* line 17: self.components = [] makes a new list object for generator g
NewList(g) == g

\* __init__, lines 13-17
Constructed(g, sd, tl) ==
    [scraped_data |-> sd, design_tokens |-> tl[1], layout_analysis |-> tl[2],
     components |-> NewList(g), pc |-> "idle", error |-> "",
     css |-> <<>>, html_structure |-> <<>>, result |-> <<>>]

PairInit ==
    /\ \E sd \in [Generators -> PairSnapshots], tl \in [Generators -> PairTokens] :
          generators = [g \in Generators |-> Constructed(g, sd[g], tl[g])]
    /\ lists = [id \in {NewList(g) : g \in Generators} |-> <<>>]
    /\ ColorIdle
    /\ GenIdle
    /\ CloneIdle
    /\ SummaryIdle
    /\ FormatIdle
    /\ RenderIdle

\* the fields of a generator after a step that ended with error err
Stepped(gen, err, ok_pc) ==
    [gen EXCEPT !.error = err, !.pc = IF err = "" THEN ok_pc ELSE "raised"]

PairUnchanged == UNCHANGED <<color_vars, gen_vars, clone_vars, summary_vars,
                             format_vars, render_vars>>

\* line 23, by generator g
PairAnalyze(g) ==
    /\ generators[g].pc = "idle"
    /\ LET self == generators[g]
           r == AnalyzePageComponents(self.scraped_data, lists[self.components])
       IN  /\ lists' = [lists EXCEPT ![self.components] = r.comps]
           /\ generators' = [generators EXCEPT ![g] = Stepped(self, r.err, "analyzed")]
    /\ PairUnchanged

\* line 26, by generator g
PairGenerateCss(g) ==
    /\ generators[g].pc = "analyzed"
    /\ LET self == generators[g]
           r == GenerateEnhancedCss(self.scraped_data, self.design_tokens,
                                    self.layout_analysis, lists[self.components])
       IN  generators' = [generators EXCEPT
                            ![g] = [Stepped(self, r.err, "css_done")
                                       EXCEPT !.css = r.html]]
    /\ UNCHANGED lists
    /\ PairUnchanged

\* line 29, by generator g
PairGenerateHtml(g) ==
    /\ generators[g].pc = "css_done"
    /\ LET self == generators[g]
           r == GenerateHtmlStructure(lists[self.components])
       IN  generators' = [generators EXCEPT
                            ![g] = [Stepped(self, r.err, "html_done")
                                       EXCEPT !.html_structure = r.html]]
    /\ UNCHANGED lists
    /\ PairUnchanged

\* lines 32-34, by generator g
PairCombine(g) ==
    /\ generators[g].pc = "html_done"
    /\ LET self == generators[g]
           r == CombineHtmlAndCss(self.scraped_data, self.html_structure,
                                  self.css)
       IN  generators' = [generators EXCEPT
                            ![g] = [Stepped(self, r.err, "returned")
                                       EXCEPT !.result = r.html]]
    /\ UNCHANGED lists
    /\ PairUnchanged

\* lines 36-38, by generator g
PairExcept(g) ==
    /\ generators[g].pc = "raised"
    /\ IsException(generators[g].error)
    /\ generators' = [generators EXCEPT ![g].pc = "returned",
                                        ![g].result = FallbackHtml]
    /\ UNCHANGED lists
    /\ PairUnchanged

PairNext ==
    \E g \in Generators :
        \/ PairAnalyze(g)
        \/ PairGenerateCss(g)
        \/ PairGenerateHtml(g)
        \/ PairCombine(g)
        \/ PairExcept(g)

SpecPair == PairInit /\ [][PairNext]_vars

\* what one generator produces when it is the only one and runs its steps
\* one after the other: the component list, and the document returned
RunAlone(sd, dt, la) ==
    LET analysis == AnalyzePageComponents(sd, <<>>)
        style == GenerateEnhancedCss(sd, dt, la, analysis.comps)
        body == GenerateHtmlStructure(analysis.comps)
        doc == CombineHtmlAndCss(sd, body.html, style.html)
    IN  [comps |-> analysis.comps,
         doc |-> IF analysis.err # "" \/ style.err # "" \/ body.err # ""
                    \/ doc.err # ""
                 THEN FallbackHtml ELSE doc.html]

\* C16: when two generators, each with its own Snapshot, run their
\* pipeline steps in any interleaving, each one's component list is, before
\* its analysis, empty and, after it, the list it builds when run alone,
\* and the document it returns is the one it returns when run alone.
C16_NoSharedState ==
    \A g \in Generators :
        LET self == generators[g]
            alone == RunAlone(self.scraped_data, self.design_tokens,
                              self.layout_analysis)
        IN  /\ self.pc = "idle" => lists[self.components] = <<>>
            /\ self.pc # "idle" => lists[self.components] = alone.comps
            /\ self.pc = "returned" => self.result = alone.doc

\* generator 1 has returned its document while generator 2, given another
\* Snapshot, is in the middle of its run with its components extracted
C16_Witness ==
    /\ generators # <<>>
    /\ generators[1].pc = "returned"
    /\ generators[1].result # FallbackHtml
    /\ generators[2].pc = "css_done"
    /\ generators[1].scraped_data # generators[2].scraped_data
    /\ Len(lists[generators[1].components]) = 4
    /\ Len(lists[generators[2].components]) = 2

-----------------------------------------------------------------------------
(* The summarizers of src/backend/hello.py *)

k_margin ==
    <<"m","a","r","g","i","n">>

k_padding ==
    <<"p","a","d","d","i","n","g">>

k_colon ==
    <<":">>

k_auto ==
    <<"a","u","t","o">>

k_px ==
    <<"p","x">>

k_display ==
    <<"d","i","s","p","l","a","y",":">>

k_flex ==
    <<"f","l","e","x">>

k_grid ==
    <<"g","r","i","d">>

k_block ==
    <<"b","l","o","c","k">>

k_inline_block ==
    <<"i","n","l","i","n","e","-","b","l","o","c","k">>

k_position ==
    <<"p","o","s","i","t","i","o","n",":">>

k_absolute ==
    <<"a","b","s","o","l","u","t","e">>

k_relative ==
    <<"r","e","l","a","t","i","v","e">>

k_fixed ==
    <<"f","i","x","e","d">>

k_sticky ==
    <<"s","t","i","c","k","y">>

k_float ==
    <<"f","l","o","a","t",":">>

k_font_family ==
    <<"f","o","n","t","-","f","a","m","i","l","y">>

k_font_size ==
    <<"f","o","n","t","-","s","i","z","e">>

k_font_weight ==
    <<"f","o","n","t","-","w","e","i","g","h","t">>

k_font_family_colon ==
    <<"f","o","n","t","-","f","a","m","i","l","y",":">>

k_font_size_colon ==
    <<"f","o","n","t","-","s","i","z","e",":">>

k_font_weight_colon ==
    <<"f","o","n","t","-","w","e","i","g","h","t",":">>

\* the values of a list, each once, in order of first occurrence
RECURSIVE Distinct(_)
Distinct(values) ==
    IF values = <<>> THEN <<>>
    ELSE LET before == Distinct(SubSeq(values, 1, Len(values) - 1))
             last == values[Len(values)]
         IN  IF \E i \in 1..Len(before) : before[i] = last THEN before
             ELSE Append(before, last)

\* how often a value occurs in a list
Occurs(values, v) == Cardinality({i \in 1..Len(values) : values[i] = v})

\* [item[0] for item in Counter(values).most_common(n)], ties in reverse
\* of first occurrence
MostCommonLastFirst(values, n) ==
    LET keys == Distinct(values)
    IN  Take(SortedDesc(keys, [i \in 1..Len(keys) |->
                                 Occurs(values, keys[i]) * (Len(keys) + 1) + i]),
             n)

\* [item[0] for item in Counter(values).most_common(n)]: by count,
\* descending, equal counts in order of first occurrence
MostCommon(values, n) ==
    LET keys == Distinct(values)
    IN  Take(SortedDesc(keys, [i \in 1..Len(keys) |-> Occurs(values, keys[i])]),
             n)

\* re.findall(r"(\d+px)", s) from position i on: a maximal run of digits
\* is a token when "px" follows it
RECURSIVE PxFrom(_, _)
PxFrom(s, i) ==
    IF i > Len(s) THEN <<>>
    ELSE IF ~IsDigit(s[i]) THEN PxFrom(s, i + 1)
    ELSE LET after == {j \in i..(Len(s) + 1) : j > Len(s) \/ ~IsDigit(s[j])}
             k == CHOOSE j \in after : \A o \in after : j <= o
         IN  IF k + 1 <= Len(s) /\ SubSeq(s, k, k + 1) = k_px
             THEN <<SubSeq(s, i, k + 1)>> \o PxFrom(s, k + 2)
             ELSE PxFrom(s, k)

FindAllPx(s) == PxFrom(s, 1)

\* the match of r"\s*([^;]+);" at position k of s: the group runs to the
\* first ";" and must not be empty; leading white space is outside the
\* group unless the group would be empty without it
GroupAt(s, k) ==
    LET semis == {j \in k..Len(s) : s[j] = ";"}
        j == CHOOSE x \in semis : \A y \in semis : x <= y
        solid == {x \in k..(j - 1) : s[x] \notin Whitespace}
    IN  IF semis = {} \/ j = k THEN [found |-> FALSE, group |-> <<>>]
        ELSE IF solid = {} THEN [found |-> TRUE, group |-> <<s[j - 1]>>]
        ELSE [found |-> TRUE,
              group |-> SubSeq(s, CHOOSE x \in solid : \A y \in solid : x <= y,
                               j - 1)]

\* re.search(key + r"\s*([^;]+);", s): the leftmost match
SearchValue(key, s) ==
    LET starts == {i \in 1..(Len(s) - Len(key) + 1) :
                      /\ SubSeq(s, i, i + Len(key) - 1) = key
                      /\ GroupAt(s, i + Len(key)).found}
    IN  IF starts = {} THEN [found |-> FALSE, group |-> <<>>]
        ELSE GroupAt(s, (CHOOSE i \in starts : \A o \in starts : i <= o)
                        + Len(key))

\* [line.strip() for line in computed_styles.split("\n")]
StrippedLines(text) ==
    LET raw == Split(text, NL)
    IN  [i \in 1..Len(raw) |-> Strip(raw[i])]

\* the concatenation of a list of lists
RECURSIVE Flatten(_)
Flatten(parts) ==
    IF parts = <<>> THEN <<>> ELSE Head(parts) \o Flatten(Tail(parts))

TopSpacing == 5

TopTypography == 3

\* lines 264-266: what a line adds to margin_values
MarginTokens(line) ==
    IF Contains(k_margin, line) /\ Contains(k_colon, line)
       /\ ~Contains(k_auto, line)
    THEN FindAllPx(line) ELSE <<>>

\* a padding test with the `"auto" not in line` of the margin test: the
\* tokens a line adds to the padding list when lines with auto add none
PaddingTokensNoAuto(line) ==
    IF Contains(k_padding, line) /\ Contains(k_colon, line)
       /\ ~Contains(k_auto, line)
    THEN FindAllPx(line) ELSE <<>>

\* lines 268-270: what a line adds to padding_values
PaddingTokens(line) ==
    IF Contains(k_padding, line) /\ Contains(k_colon, line)
    THEN FindAllPx(line) ELSE <<>>

\* summarize_spacing_system
SummarizeSpacingSystem(text) ==
    LET lines == StrippedLines(text)
        margin_values == Flatten([i \in 1..Len(lines) |-> MarginTokens(lines[i])])
        padding_values ==
            Flatten([i \in 1..Len(lines) |-> PaddingTokens(lines[i])])
    IN  [common_margins |-> MostCommon(margin_values, TopSpacing),
         common_paddings |-> MostCommon(padding_values, TopSpacing)]

\* the keys of layout_methods, in the order of lines 283-291
LayoutMethods ==
    <<"flex", "grid", "block", "inline-block", "absolute", "relative",
      "fixed", "sticky", "float">>

\* lines 297-305: the method a line's display counts for, "" for none
DisplayMethod(line) ==
    IF ~Contains(k_display, line) THEN ""
    ELSE IF Contains(k_flex, line) THEN "flex"
    ELSE IF Contains(k_grid, line) THEN "grid"
    ELSE IF Contains(k_block, line) THEN "block"
    ELSE IF Contains(k_inline_block, line) THEN "inline-block"
    ELSE ""

\* lines 307-315: the method a line's position counts for, "" for none
PositionMethod(line) ==
    IF ~Contains(k_position, line) THEN ""
    ELSE IF Contains(k_absolute, line) THEN "absolute"
    ELSE IF Contains(k_relative, line) THEN "relative"
    ELSE IF Contains(k_fixed, line) THEN "fixed"
    ELSE IF Contains(k_sticky, line) THEN "sticky"
    ELSE ""

\* lines 317-318
FloatMethod(line) == IF Contains(k_float, line) THEN "float" ELSE ""

\* summarize_layout_system: the dict as <<method, count>> pairs in the
\* order of layout_methods, the methods with count 0 left out (line 321)
SummarizeLayoutSystem(text) ==
    LET lines == StrippedLines(text)
        count == [m \in {LayoutMethods[k] : k \in 1..Len(LayoutMethods)} |->
                    Cardinality({i \in 1..Len(lines) :
                        m \in {DisplayMethod(lines[i]), PositionMethod(lines[i]),
                               FloatMethod(lines[i])}})]
        all == [k \in 1..Len(LayoutMethods) |->
                  <<LayoutMethods[k], count[LayoutMethods[k]]>>]
    IN  SelectSeq(all, LAMBDA pair : pair[2] > 0)

\* lines 335-348: the list a line contributes to and what it contributes;
\* field "" when it contributes nothing
FontValue(line) ==
    LET Found(field, key) ==
            IF SearchValue(key, line).found
            THEN [field |-> field, value |-> Strip(SearchValue(key, line).group)]
            ELSE [field |-> "", value |-> <<>>]
    IN  IF Contains(k_font_family, line)
        THEN Found("font_families", k_font_family_colon)
        ELSE IF Contains(k_font_size, line)
        THEN Found("font_sizes", k_font_size_colon)
        ELSE IF Contains(k_font_weight, line)
        THEN Found("font_weights", k_font_weight_colon)
        ELSE [field |-> "", value |-> <<>>]

\* the values the lines contribute to one of the three lists, in order
FontValues(lines, field) ==
    LET found == SelectSeq([i \in 1..Len(lines) |-> FontValue(lines[i])],
                           LAMBDA f : f.field = field)
    IN  [i \in 1..Len(found) |-> found[i].value]

\* summarize_typography
SummarizeTypography(text) ==
    LET lines == StrippedLines(text)
    IN  [font_families |->
            MostCommon(FontValues(lines, "font_families"), TopTypography),
         font_sizes |->
            MostCommon(FontValues(lines, "font_sizes"), TopTypography),
         font_weights |->
            MostCommon(FontValues(lines, "font_weights"), TopTypography)]

-----------------------------------------------------------------------------
(* The style texts the summarizers are run on: up to MaxBlocks blocks of   *)
(* the text get_comprehensive_styles formats, in any order.               *)

b_body ==
    <<"/","*"," ","B","o","d","y"," ","(","b","o","d","y",")"," ","*","/",
      "\n","{","\n"," "," ","f","o","n","t","-","f","a","m","i","l","y",":",
      " ","A","r","i","a","l",";","\n"," "," ","f","o","n","t","-","s","i",
      "z","e",":"," ","1","6","p","x",";","\n"," "," ","d","i","s","p","l",
      "a","y",":"," ","b","l","o","c","k",";","\n"," "," ","m","a","r","g",
      "i","n",":"," ","0","p","x",";","\n"," "," ","p","a","d","d","i","n",
      "g",":"," ","8","p","x"," ","1","6","p","x",";","\n","}">>

b_nav ==
    <<" "," ","f","o","n","t","-","f","a","m","i","l","y",":"," ","G","e","o",
      "r","g","i","a",";","\n"," "," ","f","o","n","t","-","f","a","m","i",
      "l","y",":"," ","V","e","r","d","a","n","a",";","\n"," "," ","f","o",
      "n","t","-","w","e","i","g","h","t",":"," ","4","0","0",";","\n"," ",
      " ","d","i","s","p","l","a","y",":"," ","f","l","e","x",";","\n"," ",
      " ","p","o","s","i","t","i","o","n",":"," ","s","t","i","c","k","y",";",
      "\n"," "," ","m","a","r","g","i","n",":"," ","1","p","x"," ","2","p",
      "x"," ","3","p","x"," ","4","p","x",";","\n"," "," ","p","a","d","d",
      "i","n","g",":"," ","5","p","x"," ","6","p","x"," ","8","p","x",";">>

b_button ==
    <<" "," ","f","o","n","t","-","s","i","z","e",":"," ","1","6","p","x",";",
      "\n"," "," ","f","o","n","t","-","s","i","z","e",":"," ","1","2","p",
      "x",";","\n"," "," ","d","i","s","p","l","a","y",":"," ","i","n","l",
      "i","n","e","-","b","l","o","c","k",";","\n"," "," ","p","o","s","i",
      "t","i","o","n",":"," ","r","e","l","a","t","i","v","e",";","\n"," ",
      " ","f","l","o","a","t",":"," ","l","e","f","t",";","\n"," "," ","m",
      "a","r","g","i","n",":"," ","0","p","x"," ","a","u","t","o",";","\n",
      " "," ","p","a","d","d","i","n","g",":"," ","4","p","x"," ","2","4","p",
      "x",";">>

b_card ==
    <<" "," ","f","o","n","t","-","f","a","m","i","l","y",":"," ","C","o","u",
      "r","i","e","r",";","\n"," "," ","f","o","n","t","-","f","a","m","i",
      "l","y",":"," ","G","e","o","r","g","i","a",";","\n"," "," ","f","o",
      "n","t","-","s","i","z","e",":"," ","2","0","p","x",";","\n"," "," ",
      "f","o","n","t","-","s","i","z","e",":"," ","1","4","p","x",";","\n",
      " "," ","d","i","s","p","l","a","y",":"," ","g","r","i","d",";","\n",
      " "," ","p","o","s","i","t","i","o","n",":"," ","a","b","s","o","l","u",
      "t","e",";","\n"," "," ","m","a","r","g","i","n",":"," ","4","p","x",
      " ","2","4","p","x",";","\n"," "," ","p","a","d","d","i","n","g",":",
      " ","2","p","x"," ","1","p","x"," ","3","p","x",";">>

b_misc ==
    <<"a"," ","{"," ","m","a","r","g","i","n",":"," ","0"," ","a","u","t","o",
      ";"," ","p","a","d","d","i","n","g",":"," ","8","p","x"," ","1","0","p",
      "x",";"," ","f","o","n","t","-","w","e","i","g","h","t",":"," ","3","0",
      "0"," ","}","\n"," "," ","p","o","s","i","t","i","o","n",":"," ","f",
      "i","x","e","d",";","\n"," "," ","d","i","s","p","l","a","y",":"," ",
      "n","o","n","e",";","\n"," "," ","f","o","n","t","-","f","a","m","i",
      "l","y",":"," ",";","\n"," "," ","f","o","n","t","-","s","i","z","e",
      " ",":"," ","9","p","x",";","\n"," "," ","m","a","r","g","i","n","-",
      "t","o","p",":"," ","1","2","p","x",";","\n"," "," ","f","o","n","t",
      "-","w","e","i","g","h","t",":"," ","7","0","0",";">>

BlockPool == {b_body, b_nav, b_button, b_card, b_misc}

MaxBlocks == 3

StyleTexts ==
    {Join(blocks, NL) :
        blocks \in UNION {[1..n -> BlockPool] : n \in 0..MaxBlocks}}

SummaryInit ==
    /\ computed_styles_str \in StyleTexts
    /\ typography_info = <<>>
    /\ layout_info = <<>>
    /\ spacing_info = <<>>
    /\ summary_pc = "typography"
    /\ ColorIdle
    /\ GenIdle
    /\ CloneIdle
    /\ FormatIdle
    /\ PairIdle
    /\ RenderIdle

SummaryUnchanged ==
    UNCHANGED <<computed_styles_str, color_vars, gen_vars, clone_vars,
                format_vars, pair_vars,
                   render_vars>>

\* hello.py line 576: typography = summarize_typography(computed_styles_str)
Typography ==
    /\ summary_pc = "typography"
    /\ typography_info' = SummarizeTypography(computed_styles_str)
    /\ summary_pc' = "layout"
    /\ UNCHANGED <<layout_info, spacing_info>>
    /\ SummaryUnchanged

\* line 579: layout_info = summarize_layout_system(computed_styles_str)
Layout ==
    /\ summary_pc = "layout"
    /\ layout_info' = SummarizeLayoutSystem(computed_styles_str)
    /\ summary_pc' = "spacing"
    /\ UNCHANGED <<typography_info, spacing_info>>
    /\ SummaryUnchanged

\* line 582: spacing_info = summarize_spacing_system(computed_styles_str)
Spacing ==
    /\ summary_pc = "spacing"
    /\ spacing_info' = SummarizeSpacingSystem(computed_styles_str)
    /\ summary_pc' = "done"
    /\ UNCHANGED <<typography_info, layout_info>>
    /\ SummaryUnchanged

SummaryNext == Typography \/ Layout \/ Spacing

SpecSummary == SummaryInit /\ [][SummaryNext]_vars

-----------------------------------------------------------------------------
(* The claims about the summarizers *)

\* the value a line declares for a property: the text after the first
\* `key` up to the next ";" or the end of the line, without surrounding
\* white space; <<>> when the line has no `key`
DeclaredValue(line, key) ==
    LET starts == {i \in 1..(Len(line) - Len(key) + 1) :
                      SubSeq(line, i, i + Len(key) - 1) = key}
        from == (CHOOSE i \in starts : \A o \in starts : i <= o) + Len(key)
        ends == {j \in from..(Len(line) + 1) : j > Len(line) \/ line[j] = ";"}
    IN  IF starts = {} THEN <<>>
        ELSE Strip(SubSeq(line, from,
                          (CHOOSE j \in ends : \A o \in ends : j <= o) - 1))

\* the text of each method name, and the property it is a value of
MethodText ==
    <<k_flex, k_grid, k_block, k_inline_block, k_absolute, k_relative,
      k_fixed, k_sticky, k_float>>

MethodProperty ==
    <<k_display, k_display, k_display, k_display, k_position, k_position,
      k_position, k_position, k_float>>

\* how many lines of the style text count for method k: the lines whose
\* display (position) value is the method's name; for float, the lines
\* with a `float:`
Tally(lines, k) ==
    Cardinality({i \in 1..Len(lines) :
            IF MethodProperty[k] = k_float THEN Contains(k_float, lines[i])
            ELSE DeclaredValue(lines[i], MethodProperty[k]) = MethodText[k]})

\* C17: summarize_layout_system counts, line by line, each display value
\* among flex, grid, block, inline-block and each position value among
\* absolute, relative, fixed, sticky under its own name (a line
\* `display: inline-block` counts for inline-block), and each `float:`;
\* the map returned holds exactly the methods counted at least once.
C17_LayoutTally ==
    summary_pc \in {"spacing", "done"} =>
        LET lines == StrippedLines(computed_styles_str)
            tally == [k \in 1..Len(LayoutMethods) |-> Tally(lines, k)]
        IN  {layout_info[i] : i \in 1..Len(layout_info)}
                = {<<LayoutMethods[k], tally[k]>> :
                      k \in {x \in 1..Len(LayoutMethods) : tally[x] > 0}}

\* the position of the first occurrence of a value in a list
FirstAt(values, v) ==
    CHOOSE i \in 1..Len(values) :
        values[i] = v /\ \A j \in 1..(i - 1) : values[j] # v

\* a ranks before b: it occurs more often, or as often and earlier
RanksBefore(values, a, b) ==
    \/ Occurs(values, a) > Occurs(values, b)
    \/ /\ Occurs(values, a) = Occurs(values, b)
       /\ FirstAt(values, a) < FirstAt(values, b)

\* top is the first n of the distinct values, ranked
IsTopRanked(top, values, n) ==
    LET all == {values[i] : i \in 1..Len(values)}
        shown == {top[i] : i \in 1..Len(top)}
    IN  /\ Len(top) <= n
        /\ Len(top) = (IF Cardinality(all) < n THEN Cardinality(all) ELSE n)
        /\ shown \subseteq all
        /\ \A i, j \in 1..Len(top) :
              i < j => RanksBefore(values, top[i], top[j])
        /\ \A v \in all \ shown :
              \A i \in 1..Len(top) : RanksBefore(values, top[i], v)

\* the tokens the lines of the style text add to a spacing list
SpacingValues(lines, Tokens(_)) ==
    Flatten([i \in 1..Len(lines) |-> Tokens(lines[i])])

\* the lines of the style text
StyleLines == StrippedLines(computed_styles_str)

\* C18: each field summarize_typography returns has at most 3 values and
\* each field summarize_spacing_system returns at most 5, and each is the
\* most frequent values of its kind in the style text, ranked by count
\* descending, equal counts in order of first occurrence.
C18_TopRanked ==
    LET lines == StyleLines
    IN  /\ summary_pc \in {"layout", "spacing", "done"} =>
              \A field \in {"font_families", "font_sizes", "font_weights"} :
                  IsTopRanked(typography_info[field],
                              FontValues(lines, field), 3)
        /\ summary_pc = "done" =>
              /\ IsTopRanked(spacing_info.common_margins,
                             SpacingValues(lines, MarginTokens), 5)
              /\ IsTopRanked(spacing_info.common_paddings,
                             SpacingValues(lines, PaddingTokens), 5)

\* more than 3 font families and more than 5 margins to choose from, the
\* third family and the fifth margin each as frequent as a value that was
\* left out and seen later
C18_Witness ==
    /\ summary_pc = "done"
    /\ LET fonts == FontValues(StyleLines, "font_families")
           margins == SpacingValues(StyleLines, MarginTokens)
       IN  /\ Len(Distinct(fonts)) > 3
           /\ Len(Distinct(margins)) > 5
           /\ Len(typography_info.font_families) = 3
           /\ Len(spacing_info.common_margins) = 5
           /\ Occurs(fonts, typography_info.font_families[3])
                 = Occurs(fonts, Distinct(fonts)[Len(Distinct(fonts))])
           /\ Occurs(margins, spacing_info.common_margins[5])
                 = Occurs(margins, Distinct(margins)[Len(Distinct(margins))])
           /\ typography_info.font_families # Take(Distinct(fonts), 3)

\* C19: the margin list is made of the px tokens of the margin lines and
\* the padding list of the px tokens of the padding lines, and a margin or
\* padding line that contains `auto` adds no token to either list.
C19_AutoLinesSkipped ==
    summary_pc = "done" =>
        /\ spacing_info.common_margins
              = MostCommon(SpacingValues(StyleLines, MarginTokens), 5)
        /\ spacing_info.common_paddings
              = MostCommon(SpacingValues(StyleLines, PaddingTokensNoAuto), 5)

-----------------------------------------------------------------------------
(* The formatting loop of get_comprehensive_styles                        *)
(* (src/backend/app/rendered_scraper.py, lines 319-375).  A style record  *)
(* is the dict the page script built, as <<property, value>> pairs in     *)
(* insertion order.                                                       *)

n_label == <<"l","a","b","e","l">>

n_selector == <<"s","e","l","e","c","t","o","r">>

n_cssVariables == <<"c","s","s","V","a","r","i","a","b","l","e","s">>

n_before == <<":",":","b","e","f","o","r","e">>

n_after == <<":",":","a","f","t","e","r">>

k_background == <<"b","a","c","k","g","r","o","u","n","d">>

k_border == <<"b","o","r","d","e","r">>

k_border_radius == <<"b","o","r","d","e","r","-","r","a","d","i","u","s">>

k_box_shadow == <<"b","o","x","-","s","h","a","d","o","w">>

\* line 334: the values that are not worth a line
IgnoredValues ==
    {<<"n","o","n","e">>,
     <<"a","u","t","o">>,
     <<"n","o","r","m","a","l">>,
     <<"i","n","i","t","i","a","l">>,
     <<"i","n","h","e","r","i","t">>}

\* line 342
TextProps ==
    {<<"c","o","l","o","r">>,
     <<"f","o","n","t","-","s","i","z","e">>,
     <<"f","o","n","t","-","f","a","m","i","l","y">>,
     <<"f","o","n","t","-","w","e","i","g","h","t">>,
     <<"l","i","n","e","-","h","e","i","g","h","t">>,
     <<"t","e","x","t","-","a","l","i","g","n">>,
     <<"t","e","x","t","-","d","e","c","o","r","a","t","i","o","n">>,
     <<"t","e","x","t","-","t","r","a","n","s","f","o","r","m">>,
     <<"l","e","t","t","e","r","-","s","p","a","c","i","n","g">>}

\* line 344
LayoutProps ==
    {<<"d","i","s","p","l","a","y">>,
     <<"p","o","s","i","t","i","o","n">>,
     <<"t","o","p">>,
     <<"r","i","g","h","t">>,
     <<"b","o","t","t","o","m">>,
     <<"l","e","f","t">>,
     <<"w","i","d","t","h">>,
     <<"h","e","i","g","h","t">>,
     <<"m","a","x","-","w","i","d","t","h">>,
     <<"m","i","n","-","h","e","i","g","h","t">>,
     <<"f","l","e","x","-","d","i","r","e","c","t","i","o","n">>,
     <<"j","u","s","t","i","f","y","-","c","o","n","t","e","n","t">>,
     <<"a","l","i","g","n","-","i","t","e","m","s">>,
     <<"g","r","i","d","-","t","e","m","p","l","a","t","e","-","c","o","l","u","m","n","s">>,
     <<"g","r","i","d","-","g","a","p">>,
     <<"z","-","i","n","d","e","x">>}
IsUpper(ch) == \E k \in 1..Len(UpperChars) : UpperChars[k] = ch

\* lines 336-337: prop.replace('_', '-'), then a "-" before every capital,
\* then lower()
CleanProp(prop) ==
    LET replaced == [i \in 1..Len(prop) |->
                       IF prop[i] = "_" THEN "-" ELSE prop[i]]
        dashed == Flatten([i \in 1..Len(replaced) |->
                             IF IsUpper(replaced[i])
                             THEN <<"-", replaced[i]>>
                             ELSE <<replaced[i]>>])
    IN  Lower(dashed)

\* line 333: the keys of a record that are not style properties
MetaKeys == {n_label, n_selector, n_cssVariables}

\* line 359
PseudoKeys == <<n_before, n_after>>

\* the page script stores a dict under "::before" and "::after" and a
\* string under every other property
IsPseudoKey(prop) == \E k \in 1..Len(PseudoKeys) : PseudoKeys[k] = prop

\* `not value or value in [...]` of lines 333 and 364
NotWorthALine(value) ==
    value = <<>> \/ value = NoneVal \/ value \in IgnoredValues

\* the test of line 333
Skipped(prop, value) ==
    \/ prop \in MetaKeys
    \/ IF IsPseudoKey(prop) THEN value = <<>> ELSE NotWorthALine(value)

\* str() of a dict of strings, as the f-string of line 350 prints it
DictRepr(pairs) ==
    <<"{">>
    \o Join([i \in 1..Len(pairs) |->
               <<"'">> \o pairs[i][1] \o <<"'", ":", " ", "'">>
               \o pairs[i][2] \o <<"'">>],
            <<",", " ">>)
    \o <<"}">>

ValueText(prop, value) ==
    IF IsPseudoKey(prop) THEN DictRepr(value) ELSE PyStr(value)

\* f"{indent}{name}: {value};"
PropLine(indent, name, value) ==
    indent \o name \o <<":", " ">> \o value \o <<";">>

Indent2 == <<" ", " ">>

Indent4 == <<" ", " ", " ", " ">>

\* the if/elif chain of lines 339-350
GroupOf(clean_prop) ==
    IF Contains(k_background, clean_prop) THEN "background"
    ELSE IF clean_prop \in TextProps THEN "text"
    ELSE IF clean_prop \in LayoutProps THEN "layout"
    ELSE IF Contains(k_padding, clean_prop) \/ Contains(k_margin, clean_prop)
         THEN "spacing"
    ELSE IF \/ Contains(k_border, clean_prop)
            \/ clean_prop \in {k_border_radius, k_box_shadow}
         THEN "border"
    ELSE "other"

\* one of the six lists of lines 325-330 after the loop of line 332
GroupProps(style_info, group) ==
    LET InGroup(pr) == /\ ~Skipped(pr[1], pr[2])
                       /\ GroupOf(CleanProp(pr[1])) = group
        kept == SelectSeq(style_info, InGroup)
    IN  [i \in 1..Len(kept) |->
           PropLine(Indent2, CleanProp(kept[i][1]),
                    ValueText(kept[i][1], kept[i][2]))]

\* the concatenation with the text group first
AllPropsTextFirst(style_info) ==
    GroupProps(style_info, "text") \o GroupProps(style_info, "background")
    \o GroupProps(style_info, "layout") \o GroupProps(style_info, "spacing")
    \o GroupProps(style_info, "border") \o GroupProps(style_info, "other")

\* line 369
AllProps(style_info) ==
    GroupProps(style_info, "background") \o GroupProps(style_info, "text")
    \o GroupProps(style_info, "layout") \o GroupProps(style_info, "spacing")
    \o GroupProps(style_info, "border") \o GroupProps(style_info, "other")

HasKey(pairs, key) == \E k \in 1..Len(pairs) : pairs[k][1] = key

\* line 322
HeaderLine(style_info) ==
    <<"\n", "/", "*", " ">> \o PairsGet(style_info, n_label, <<>>)
    \o <<" ", "(">> \o PairsGet(style_info, n_selector, <<>>)
    \o <<")", " ", "*", "/">>

VariablesComment ==
    <<"\n", " ", " ", "/", "*", " ", "C", "S", "S", " ",
      "V", "a", "r", "i", "a", "b", "l", "e", "s", " ", "*", "/">>

\* lines 353-356
VariableLines(style_info) ==
    LET variables == PairsGet(style_info, n_cssVariables, <<>>)
    IN  IF variables = <<>> THEN <<>>
        ELSE <<VariablesComment>>
             \o [i \in 1..Len(variables) |->
                   PropLine(Indent2, variables[i][1], variables[i][2])]

\* lines 360-366 for one pseudo-element
PseudoLines(style_info, pseudo) ==
    IF ~HasKey(style_info, pseudo) THEN <<>>
    ELSE LET rules == PairsGet(style_info, pseudo, <<>>)
             Worth(pr) == ~NotWorthALine(pr[2])
             kept == SelectSeq(rules, Worth)
         IN  << <<"\n", " ", " ", "/", "*", " ">> \o pseudo \o <<" ", "*", "/">>,
                Indent2 \o <<"{">> >>
             \o [i \in 1..Len(kept) |->
                   PropLine(Indent4, kept[i][1], kept[i][2])]
             \o << Indent2 \o <<"}">> >>

\* lines 370-373
BlockLines(style_info) ==
    LET all_props == AllProps(style_info)
    IN  IF all_props = <<>> THEN <<>>
        ELSE << <<"{">> >> \o all_props \o << <<"}">> >>

\* what one pass of the loop of line 321 appends
RecordLines(style_info) ==
    <<HeaderLine(style_info)>> \o VariableLines(style_info)
    \o PseudoLines(style_info, PseudoKeys[1])
    \o PseudoLines(style_info, PseudoKeys[2])
    \o BlockLines(style_info)

(* Style records for the formatting loop *)

q_backgroundColor == <<"b","a","c","k","g","r","o","u","n","d","C","o","l","o","r">>

q_color == <<"c","o","l","o","r">>

q_display == <<"d","i","s","p","l","a","y">>

q_paddingTop == <<"p","a","d","d","i","n","g","T","o","p">>

q_borderRadius == <<"b","o","r","d","e","r","R","a","d","i","u","s">>

q_opacity == <<"o","p","a","c","i","t","y">>

q_marginLeft == <<"m","a","r","g","i","n","L","e","f","t">>

q_fontSize == <<"f","o","n","t","S","i","z","e">>

q_textAlign == <<"t","e","x","t","A","l","i","g","n">>

q_boxShadow == <<"b","o","x","S","h","a","d","o","w">>

q_content == <<"c","o","n","t","e","n","t">>

y_flex == <<"f","l","e","x">>

y_8px == <<"8","p","x">>

y_4px == <<"4","p","x">>

y_1 == <<"1">>

y_auto == <<"a","u","t","o">>

y_none == <<"n","o","n","e">>

y_center == <<"c","e","n","t","e","r">>

y_Hero == <<"H","e","r","o"," ","S","e","c","t","i","o","n">>

y_hero == <<".","h","e","r","o">>

y_Card == <<"C","a","r","d">>

y_card == <<".","c","a","r","d">>

y_brand == <<"-","-","b","r","a","n","d">>

y_star == <<"\"","*","\"">>

MaxProps == 3

\* properties the page script collects (lines 149-211 and 219-229), each
\* with the value it has in these records: three of them carry a value the
\* loop passes over
PropPool ==
    << <<q_backgroundColor, v_white>>,
       <<q_color, v_red>>,
       <<q_display, y_flex>>,
       <<q_paddingTop, y_8px>>,
       <<q_borderRadius, y_4px>>,
       <<q_opacity, y_1>>,
       <<q_marginLeft, y_auto>>,
       <<q_fontSize, <<>> >>,
       <<q_textAlign, y_center>>,
       <<n_cssVariables, << <<y_brand, v_blue>> >> >>,
       <<n_before, << <<q_content, y_star>>, <<q_color, y_none>> >> >> >>

\* the ways of picking up to n properties of the pool, in every order
Arrangements(n) ==
    {s \in UNION {[1..k -> 1..Len(PropPool)] : k \in 0..n} :
        \A i, j \in 1..Len(s) : i # j => s[i] # s[j]}

HeroRecord(s) ==
    << <<n_label, y_Hero>>, <<n_selector, y_hero>> >>
    \o [i \in 1..Len(s) |-> PropPool[s[i]]]

CardRecord ==
    << <<n_label, y_Card>>, <<n_selector, y_card>>,
       <<q_boxShadow, y_none>>, <<q_display, y_flex>>,
       <<n_after, << <<q_content, y_star>> >> >> >>

StyleRecordLists ==
    {<<HeroRecord(s)>> : s \in Arrangements(MaxProps)}
    \cup {<<CardRecord, HeroRecord(s)>> : s \in Arrangements(1)}

(* get_comprehensive_styles from line 320 on, on every list of records *)

EndedWith(text) ==
    [kind |-> "pair", styles_info |-> styles_info, text |-> text]

EndedEmpty == [kind |-> "empty"]

FormatInit ==
    /\ styles_info \in StyleRecordLists
    /\ formatted_styles = <<>>
    /\ style_pos = 1
    /\ styles_result = [kind |-> "none"]
    /\ ColorIdle /\ GenIdle /\ CloneIdle /\ SummaryIdle /\ PairIdle
    /\ RenderIdle

FormatUnchanged ==
    UNCHANGED <<color_vars, gen_vars, clone_vars, summary_vars, pair_vars,
                render_vars>>

\* one pass of the loop of line 321; a record without label or selector
\* raises KeyError at line 322, and line 379 returns ""
FormatRecord ==
    /\ styles_result.kind = "none"
    /\ style_pos \in 1..Len(styles_info)
    /\ LET style_info == styles_info[style_pos]
       IN  IF HasKey(style_info, n_label) /\ HasKey(style_info, n_selector)
           THEN /\ formatted_styles' =
                       formatted_styles \o RecordLines(style_info)
                /\ style_pos' = style_pos + 1
                /\ UNCHANGED styles_result
           ELSE /\ styles_result' = EndedEmpty
                /\ UNCHANGED <<formatted_styles, style_pos>>
    /\ UNCHANGED styles_info
    /\ FormatUnchanged

\* line 375
FormatReturn ==
    /\ styles_result.kind = "none"
    /\ style_pos = Len(styles_info) + 1
    /\ styles_result' = EndedWith(Join(formatted_styles, <<"\n">>))
    /\ UNCHANGED <<styles_info, formatted_styles, style_pos>>
    /\ FormatUnchanged

FormatNext == FormatRecord \/ FormatReturn

SpecFormat == FormatInit /\ [][FormatNext]_vars

(* The grouping of the formatting loop *)

\* the record the loop has just formatted
LastRecord == styles_info[style_pos - 1]

\* the lines the loop appended for that record: from its header comment on
LastSegment ==
    LET IsHeader(i) == /\ Len(formatted_styles[i]) >= 2
                       /\ formatted_styles[i][1] = "\n"
                       /\ formatted_styles[i][2] = "/"
        h == CHOOSE i \in 1..Len(formatted_styles) :
               /\ IsHeader(i)
               /\ \A j \in (i + 1)..Len(formatted_styles) : ~IsHeader(j)
    IN  SubSeq(formatted_styles, h, Len(formatted_styles))

\* the lines between the "{" and the "}" of that record, <<>> without them
LastBlock ==
    LET seg == LastSegment
    IN  IF \E i \in 1..Len(seg) : seg[i] = <<"{">>
        THEN LET open == CHOOSE i \in 1..Len(seg) : seg[i] = <<"{">>
             IN  IF seg[Len(seg)] = <<"}">>
                 THEN SubSeq(seg, open + 1, Len(seg) - 1)
                 ELSE SubSeq(seg, open + 1, Len(seg))
        ELSE <<>>

\* a property of a record that has a value to print: not one of the keys
\* label, selector and cssVariables, its value neither empty nor one of
\* none, auto, normal, initial, inherit
HasPrintableValue(pr) ==
    /\ pr[1] \notin {n_label, n_selector, n_cssVariables}
    /\ pr[2] # <<>>
    /\ IsPseudoKey(pr[1]) \/ pr[2] \notin IgnoredValues

GroupOrder == <<"background", "text", "layout", "spacing", "border", "other">>

\* whether the k-th rule applies to a property name
RuleApplies(k, name) ==
    CASE k = 1 -> Contains(k_background, name)
      [] k = 2 -> name \in TextProps
      [] k = 3 -> name \in LayoutProps
      [] k = 4 -> Contains(k_padding, name) \/ Contains(k_margin, name)
      [] k = 5 -> \/ Contains(k_border, name)
                  \/ name = k_border_radius
                  \/ name = k_box_shadow
      [] OTHER -> TRUE

\* the first rule that applies, as an index into GroupOrder
FirstRule(name) ==
    CHOOSE k \in 1..Len(GroupOrder) :
        /\ RuleApplies(k, name)
        /\ \A h \in 1..(k - 1) : ~RuleApplies(h, name)

LineOf(pr) == PropLine(Indent2, CleanProp(pr[1]), ValueText(pr[1], pr[2]))

PlacesOf(line, block) == {i \in 1..Len(block) : block[i] = line}

\* C20: once a record is formatted, each of its properties with a
\* printable value has exactly one line in the block and every line of the
\* block is such a property's; a property whose first applicable rule comes
\* earlier in the order background, text, layout, spacing, border, other
\* stands before one whose rule comes later, wherever the two stand in the
\* record
C20_GroupedByName ==
    (style_pos > 1) =>
        LET rec == LastRecord
            block == LastBlock
            printed == SelectSeq(rec, HasPrintableValue)
        IN  /\ Len(block) = Len(printed)
            /\ \A i \in 1..Len(printed) :
                   Cardinality(PlacesOf(LineOf(printed[i]), block)) = 1
            /\ \A i, j \in 1..Len(printed) :
                   FirstRule(CleanProp(printed[i][1]))
                       < FirstRule(CleanProp(printed[j][1]))
                   => \A a \in PlacesOf(LineOf(printed[i]), block),
                         b \in PlacesOf(LineOf(printed[j]), block) : a < b

\* a formatted record in which a property of a later group stands before
\* one of an earlier group, and one property has a value that is passed over
C20_Witness ==
    /\ style_pos > 1
    /\ LET rec == LastRecord
       IN  /\ \E i, j \in 1..Len(rec) :
                  /\ i < j
                  /\ HasPrintableValue(rec[i])
                  /\ HasPrintableValue(rec[j])
                  /\ FirstRule(CleanProp(rec[i][1]))
                         > FirstRule(CleanProp(rec[j][1]))
           /\ \E i \in 3..Len(rec) :
                  /\ rec[i][1] # n_cssVariables
                  /\ ~HasPrintableValue(rec[i])
           /\ Len(LastBlock) >= 2

-----------------------------------------------------------------------------
(* The order of extraction and of the blocks and fragments made from it *)

ExtractionOrder == <<"navigation", "header", "main_content", "footer">>

ExtractionPriorities == <<10, 9, 8, 5>>

\* where a component type stands in ExtractionOrder, 0 if it does not
PlaceOf(type) ==
    IF \E k \in 1..Len(ExtractionOrder) : ExtractionOrder[k] = type
    THEN CHOOSE k \in 1..Len(ExtractionOrder) : ExtractionOrder[k] = type
    ELSE 0

\* the first invocation is past the analysis and has not returned
FirstRunAnalyzed ==
    pc \in {"analyzed", "css_done", "html_done"} /\ outputs = <<>>

\* the component types whose CSS blocks stand in a style sheet, in order
CssBlockTypes(sheet) ==
    LET IsOpen(x) == x \in {NavCssOpen, HeaderCssOpen, MainCss, FooterCssOpen}
        opens == SelectSeq(sheet, IsOpen)
    IN  [i \in 1..Len(opens) |->
           CASE opens[i] = NavCssOpen -> "navigation"
             [] opens[i] = HeaderCssOpen -> "header"
             [] opens[i] = MainCss -> "main_content"
             [] OTHER -> "footer"]

\* the component types whose fragments stand in a body, in order
HtmlFragmentTypes(body) ==
    LET IsOpen(x) == x \in {NavHtml, HeaderOpen, MainOpen, FooterOpen}
        opens == SelectSeq(body, IsOpen)
    IN  [i \in 1..Len(opens) |->
           CASE opens[i] = NavHtml -> "navigation"
             [] opens[i] = HeaderOpen -> "header"
             [] opens[i] = MainOpen -> "main_content"
             [] OTHER -> "footer"]

\* C21: after the analysis of the first invocation on a fresh generator the
\* component list is a subsequence of navigation, header, main_content,
\* footer in that order, with priorities 10, 9, 8 and 5, so the priority
\* strictly decreases along the list; and once CSS and HTML are synthesized
\* the CSS blocks stand in the order of the HTML fragments.
C21_ExtractionOrder ==
    /\ FirstRunAnalyzed =>
          /\ \A i \in 1..Len(components) :
                /\ PlaceOf(components[i].type) > 0
                /\ components[i].priority
                       = ExtractionPriorities[PlaceOf(components[i].type)]
          /\ \A i, j \in 1..Len(components) :
                i < j => /\ PlaceOf(components[i].type)
                                < PlaceOf(components[j].type)
                         /\ components[i].priority > components[j].priority
    /\ FirstHtmlDone => CssBlockTypes(css) = HtmlFragmentTypes(html_structure)

\* the first invocation has synthesized CSS and HTML for all four components
C21_Witness ==
    /\ FirstHtmlDone
    /\ TypesOf(components) = ExtractionOrder
    /\ CssBlockTypes(css) = ExtractionOrder
    /\ HtmlFragmentTypes(html_structure) = ExtractionOrder

-----------------------------------------------------------------------------
(* _generate_enhanced_css (lines 149-171) on component lists that code     *)
(* holding the generator has put into self.components                      *)

StyledHeader ==
    [type |-> "header",
     styles |-> << <<p_backgroundColor, v_navy>>, <<p_color, v_white>> >>,
     content |-> x_TitleSub, priority |-> 9]

\* a component of a type that lines 251-258 do not name
CompSidebar ==
    [type |-> "sidebar", styles |-> <<>>, content |-> x_Late, priority |-> 7]

\* a component without a type
CompUntyped == [styles |-> <<>>, content |-> x_Late, priority |-> 1]

CssPool ==
    {CompNav, StyledHeader, MainWith(x_HelloWorld, <<>>, <<>>),
     FooterWith(x_Foot), CompSidebar, CompUntyped}

MaxCssComponents == 3

CssLists == UNION {[1..n -> CssPool] : n \in 0..MaxCssComponents}

\* the breakpoints a Snapshot can carry
BreakpointPool == {<<>>, <<600, 900>>, <<768, 1024>>, <<1200>>}

CssSnapshots ==
    {<<>>}
    \cup {[responsive_info |-> [breakpoints |-> b]] : b \in {<<>>, <<600, 900>>}}

CssTokens ==
    {<<>>,
     [colors |-> [primary |-> <<v_blue, v_red>>, text |-> <<>>,
                  background |-> <<v_hex_fff>>],
      typography |-> [primary_font |-> f_Georgia]]}

CssLayouts ==
    {<<>>, [layout_type |-> "grid"], [layout_type |-> "flexbox"],
     [layout_type |-> "float"]}

CssInit ==
    /\ components \in CssLists
    /\ scraped_data \in CssSnapshots
    /\ design_tokens \in CssTokens
    /\ layout_analysis \in CssLayouts
    /\ pc = "analyzed"
    /\ caller = "none"
    /\ error = ""
    /\ failed_at = ""
    /\ css = <<>>
    /\ html_structure = <<>>
    /\ result = <<>>
    /\ outputs = <<>>
    /\ entry_result = <<>>
    /\ ColorIdle
    /\ MoreIdle

CssNext == GenerateCss

SpecCss == CssInit /\ [][CssNext]_vars

(* The claims about the CSS synthesizer *)

\* the blocks of the style sheet: what the blank lines separate
CssBlocks == Split(css, BlankLine)

KnownTypes == {"navigation", "header", "main_content", "footer"}

\* the components that have one of the four types, in list order
KnownComponents ==
    LET IsKnown(c) == Get(c, "type", "") \in KnownTypes
    IN  SelectSeq(components, IsKnown)

\* how the block of a component of each type begins
BlockStart(type) ==
    CASE type = "navigation" -> NavCssOpen
      [] type = "header" -> HeaderCssOpen
      [] type = "main_content" -> MainCss
      [] type = "footer" -> FooterCssOpen

\* C22: the synthesized CSS is the reset block, the :root variable block,
\* one block for each component of a known type in list order, begun by
\* the template of its type, the layout block and the responsive block,
\* with a blank line between neighbours; no block is empty and a component
\* of another type has no block.
C22_BlocksInOrder ==
    (pc = "css_done") =>
        LET blocks == CssBlocks
            known == KnownComponents
            n == Len(blocks)
        IN  /\ n = Len(known) + 4
            /\ \A b \in 1..n : blocks[b] # <<>>
            /\ blocks[1] = <<ResetCss>>
            /\ blocks[2][1] = VarsOpen
            /\ blocks[2][Len(blocks[2])] = VarsClose
            /\ \A i \in 1..Len(known) :
                   blocks[2 + i][1] = BlockStart(known[i].type)
            /\ blocks[n - 1][1] = LayoutCss
            /\ blocks[n][1] = ResponsiveOpen

\* a style sheet for a list in which a component of an unknown type stands
\* between two of known types
C22_Witness ==
    /\ pc = "css_done"
    /\ Len(components) = 3
    /\ Get(components[1], "type", "") = "footer"
    /\ Get(components[2], "type", "") = "sidebar"
    /\ Get(components[3], "type", "") = "header"
    /\ Len(CssBlocks) = 6

CssHas(token) == \E i \in 1..Len(css) : css[i] = token

DetectedLayout == Get(layout_analysis, "layout_type", "block")

\* C23: the layout block has the grid rule and no flex classes for the
\* method grid, the flex classes and no grid rule for the method flexbox,
\* and neither for any other or a missing method.
C23_OneLayoutForm ==
    (pc = "css_done") =>
        /\ CssHas(LayoutCss)
        /\ CssHas(GridCss) <=> (DetectedLayout = "grid")
        /\ CssHas(FlexCss) <=> (DetectedLayout = "flexbox")
        /\ ~(CssHas(GridCss) /\ CssHas(FlexCss))

\* a style sheet with the grid rule
C23_Witness ==
    /\ pc = "css_done"
    /\ layout_analysis = [layout_type |-> "grid"]
    /\ CssHas(GridCss)
    /\ ~CssHas(FlexCss)

\* the Snapshot with other breakpoints and nothing else changed
WithBreakpoints(sd, b) ==
    [k \in DOMAIN sd \cup {"responsive_info"} |->
        IF k = "responsive_info"
        THEN [j \in DOMAIN Get(sd, "responsive_info", <<>>) \cup {"breakpoints"} |->
                 IF j = "breakpoints" THEN b ELSE sd.responsive_info[j]]
        ELSE sd[k]]

\* the responsive block of the style sheet: its last block
EmittedResponsive == CssBlocks[Len(CssBlocks)]

\* the widths of the two media queries of a responsive block, in order
MediaWidths(block) ==
    LET first == CHOOSE i \in 1..Len(block) : block[i] = ResponsiveOpen
        second == CHOOSE i \in 1..Len(block) : block[i] = ResponsiveToPhone
        last == CHOOSE i \in 1..Len(block) : block[i] = ResponsiveClose
    IN  <<SubSeq(block, first + 1, second - 1),
          SubSeq(block, second + 1, last - 1)>>

\* C24: the responsive block is the same for every Snapshot that differs
\* from the given one only in responsive_info.breakpoints, and its two
\* media queries have the widths 768px and 480px.
C24_ResponsiveFixed ==
    (pc = "css_done") =>
        /\ \A b \in BreakpointPool :
              GenerateResponsiveCss(WithBreakpoints(scraped_data, b))
                  = EmittedResponsive
        /\ MediaWidths(EmittedResponsive)
               = << <<"7","6","8","p","x">>, <<"4","8","0","p","x">> >>

\* a style sheet for a Snapshot whose breakpoints are 600 and 900
C24_Witness ==
    /\ pc = "css_done"
    /\ scraped_data = [responsive_info |-> [breakpoints |-> <<600, 900>>]]
    /\ MediaWidths(EmittedResponsive)[1] = <<"7","6","8","p","x">>

-----------------------------------------------------------------------------
(* The header and main-content fragments (lines 554-610), each on one      *)
(* component that code holding the generator has put into self.components  *)

\* the parts a main text is made of: empty, blank, and a word
PartPool == {<<>>, <<" ">>, x_Legal}

MaxParts == 4

PartLists == UNION {[1..n -> PartPool] : n \in 0..MaxParts}

\* main_content components whose headings or paragraphs are empty
TextMains ==
    {MainWith(Join(parts, BlankLine), <<>>, <<>>) : parts \in PartLists}
    \cup {MainWith(Join(parts, BlankLine), TwoHeadings, <<>>) :
            parts \in PartLists}
    \cup {MainWith(Join(parts, BlankLine), <<>>, <<x_Legal>>) :
            parts \in PartLists}

\* a heading with a text and one without
HeadingPool == {[text |-> <<"O","n","e">>], [level |-> 2]}

ParagraphPool == {x_Legal, Mk(ParagraphLimit + 1)}

\* main_content components with headings and paragraphs
PairedMains ==
    {MainWith(x_HelloWorld, h, p) :
        h \in UNION {[1..n -> HeadingPool] : n \in 1..MaxParts},
        p \in UNION {[1..n -> ParagraphPool] : n \in 1..MaxParts}}

\* the lines a header text is made of
LinePool == {<<>>, x_Foot, Mk(SubtitleLimit + 1)}

\* header components: a text of up to three lines, no content, content None
EdgeHeaders ==
    {HeaderWith(Join(lines, NL)) :
        lines \in UNION {[1..n -> LinePool] : n \in 0..3}}
    \cup {[type |-> "header", styles |-> <<>>, priority |-> 9],
          HeaderWith(NoneVal)}

FragmentInit ==
    /\ \E c \in TextMains \cup LongMains \cup PairedMains \cup EdgeHeaders :
          components = <<c>>
    /\ pc = "css_done"
    /\ scraped_data = <<>>
    /\ design_tokens = <<>>
    /\ layout_analysis = <<>>
    /\ caller = "none"
    /\ error = ""
    /\ failed_at = ""
    /\ css = <<>>
    /\ html_structure = <<>>
    /\ result = <<>>
    /\ outputs = <<>>
    /\ entry_result = <<>>
    /\ ColorIdle
    /\ MoreIdle

FragmentNext == GenerateHtml

SpecFragment == FragmentInit /\ [][FragmentNext]_vars

(* The claims about the two fragments *)

\* the one component of the list
TheComponent == components[1]

\* a main_content component that takes the branch of line 584: its headings
\* or its paragraphs are empty
TakesTextBranch(c) ==
    /\ Get(c, "type", "") = "main_content"
    /\ Get(c, "headings", <<>>) = <<>> \/ Get(c, "paragraphs", <<>>) = <<>>

\* a main_content component that takes the branch of line 576
TakesPairedBranch(c) ==
    /\ Get(c, "type", "") = "main_content"
    /\ Get(c, "headings", <<>>) # <<>>
    /\ Get(c, "paragraphs", <<>>) # <<>>

\* the openings of the sections made from the component's texts, in order
SectionsEmitted ==
    SelectSeq(html_structure, LAMBDA t : t \in {SectionOpenH2, SectionOpenP})

HeadingsEmitted == SelectSeq(SectionsEmitted, LAMBDA t : t = SectionOpenH2)

ParagraphsEmitted == SelectSeq(SectionsEmitted, LAMBDA t : t = SectionOpenP)

\* C25: in the branch for empty headings or paragraphs, whenever a section
\* is emitted the first one is a heading; at most one heading, of at most
\* 100 characters, and at most two paragraphs, of at most 300 characters
\* each, are emitted.
C25_HeadingFirst ==
    (pc = "html_done" /\ TakesTextBranch(TheComponent)) =>
        /\ SectionsEmitted # <<>> => SectionsEmitted[1] = SectionOpenH2
        /\ Len(HeadingsEmitted) <= 1
        /\ Len(ParagraphsEmitted) <= 2
        /\ LET shown == AllBetween(html_structure, {SectionOpenH2},
                                   SectionCloseH2)
           IN  \A i \in 1..Len(shown) : Len(shown[i]) <= 100
        /\ \A i \in 1..Len(ParagraphsShown) : Len(ParagraphsShown[i]) <= 300

Least(a, b) == IF a < b THEN a ELSE b

\* C27: with headings and paragraphs both non-empty the fragment has
\* min(3, number of headings) blocks; block i has the text of heading i
\* and paragraph i cut to 300 characters, or "Content coming soon..." when
\* there is no paragraph i.
C27_PairedBlocks ==
    (pc = "html_done" /\ TakesPairedBranch(TheComponent)) =>
        LET headings == TheComponent.headings
            paragraphs == TheComponent.paragraphs
            n == Least(3, Len(headings))
            titles == AllBetween(html_structure, {SectionOpenH2}, SectionH2ToP)
            texts == AllBetween(html_structure, {SectionH2ToP}, SectionCloseP)
        IN  /\ SectionsEmitted = [i \in 1..n |-> SectionOpenH2]
            /\ Len(titles) = n
            /\ Len(texts) = n
            /\ \A i \in 1..n :
                  /\ "text" \in DOMAIN headings[i] => titles[i] = headings[i].text
                  /\ texts[i] = IF i <= Len(paragraphs)
                                THEN Prefix(paragraphs[i], 300)
                                ELSE <<"C","o","n","t","e","n","t"," ",
                                       "c","o","m","i","n","g"," ",
                                       "s","o","o","n",".",".",".">>

\* four headings over two paragraphs, the second longer than 300 characters
C27_Witness ==
    /\ pc = "html_done"
    /\ TakesPairedBranch(TheComponent)
    /\ Len(TheComponent.headings) = 4
    /\ TheComponent.paragraphs = <<x_Legal, Mk(301)>>
    /\ Len(SectionsEmitted) = 3
    /\ AllBetween(html_structure, {SectionH2ToP}, SectionCloseP)
          = <<x_Legal, Mk(300), t_ComingSoon>>

\* C28: for every header component the fragment is produced without error;
\* its title is the first line of the content cut to 50 characters, or
\* "Welcome" when that is empty; its subtitle is the second line cut to 100
\* characters, or a default text when there is no second line or it is
\* empty; neither is empty.
C28_HeaderAlwaysProduced ==
    (Get(TheComponent, "type", "") = "header") =>
        /\ pc # "raised"
        /\ (pc = "html_done") =>
              LET lines == Split(Get(TheComponent, "content", <<>>), NL)
                  title == Between(html_structure, HeaderOpen, HeaderMid)
                  subtitle == Between(html_structure, HeaderMid, HeaderClose)
              IN  /\ title # <<>>
                  /\ subtitle # <<>>
                  /\ title = IF lines[1] # <<>> THEN Prefix(lines[1], 50)
                             ELSE <<"W","e","l","c","o","m","e">>
                  /\ IF Len(lines) >= 2 /\ lines[2] # <<>>
                     THEN subtitle = Prefix(lines[2], 100)
                     ELSE subtitle \in {t_DefaultSubtitle, t_DefaultSubtitleLong}

-----------------------------------------------------------------------------
(* get_rendered_html (src/backend/app/rendered_scraper.py, lines 381-551). *)
(* render_locals is the function's frame: a name is in its domain once a   *)
(* statement has bound it.                                                 *)

\* the statements of the try block, lines 388-536, in order, by what they
\* do: load the page (390-397), read the section colors (399), the script
\* behaviour (418), the visible text (452-473), the computed styles (477),
\* the page content (480), the screenshot (485-486), parse and clean
\* (491-526), summarize the layout (529-530)
TrySteps ==
    <<"load", "colors", "behavior", "text", "styles", "content",
      "screenshot", "parse", "layout">>

\* the names a step binds when it completes
BoundBy(step) ==
    CASE step = "colors" -> [section_colors |-> "section colors"]
      [] step = "behavior" -> [js_behavior_summary |-> "js summary"]
      [] step = "text" -> [visible_text_summary |-> "visible text"]
      [] step = "styles" -> [computed_styles_json |-> "styles json",
                             computed_styles_str |-> "styles text"]
      [] step = "content" -> [content |-> "raw html"]
      [] step = "screenshot" -> [screenshot_base64 |-> "screenshot"]
      [] step = "parse" -> [cleaned_html |-> "cleaned html",
                            style_text |-> "style text"]
      [] step = "layout" -> [layout_summary |-> "layout counts",
                             layout_structure |-> "layout zones"]
      [] OTHER -> <<>>

\* the exceptions a step can raise.  The three reads of the text step are
\* each inside a bare except (lines 453-471); get_comprehensive_styles
\* catches its own exceptions and returns "" (lines 377-379), which the
\* unpacking of line 477 answers with ValueError.
ErrorsOf(step) ==
    CASE step = "load" -> {"TimeoutError", "PlaywrightError"}
      [] step = "text" -> {}
      [] step = "styles" -> {"ValueError"}
      [] step = "parse" -> {"Exception"}
      [] step = "layout" -> {"Exception"}
      [] OTHER -> {"PlaywrightError"}

\* the step after TrySteps[k]; after the last the try block is left
StepAfter(step) ==
    LET k == CHOOSE i \in 1..Len(TrySteps) : TrySteps[i] = step
    IN  IF k < Len(TrySteps) THEN TrySteps[k + 1] ELSE "finally"

ErrorDocOpen == "<html><body><h2>Playwright Error</h2><p>"

ErrorDocClose == "</p></body></html>"

\* the bindings of the except clause, lines 541-546
ExceptBindings(e) ==
    [cleaned_html |-> <<ErrorDocOpen, e, ErrorDocClose>>,
     layout_summary |-> "Could not extract layout",
     screenshot_base64 |-> "",
     style_text |-> "",
     visible_text_summary |-> "",
     computed_styles_str |-> ""]

\* the names of the return statement, line 551, in order
ReturnNames ==
    <<"cleaned_html", "screenshot_base64", "layout_summary", "style_text",
      "visible_text_summary", "computed_styles_str", "js_behavior_summary",
      "section_colors", "computed_styles_json", "layout_structure">>

RenderedWith(values) == [kind |-> "tuple", values |-> values]

RenderRaised(e) == [kind |-> "raise", error |-> e]

RenderInit ==
    /\ render_url \in Urls
    /\ render_pc = "launch"
    /\ render_locals = <<>>
    /\ render_error = ""
    /\ browser_closed = FALSE
    /\ render_result = [kind |-> "none"]
    /\ ColorIdle
    /\ GenIdle
    /\ CloneIdle
    /\ SummaryIdle
    /\ FormatIdle
    /\ PairIdle

RenderUnchanged ==
    UNCHANGED <<color_vars, gen_vars, clone_vars, summary_vars, format_vars,
                pair_vars>>

\* lines 385-386, outside the try: the browser starts, or the call raises
\* to the caller
Launch ==
    /\ render_pc = "launch"
    /\ \/ /\ render_pc' = TrySteps[1]
          /\ UNCHANGED render_result
       \/ /\ render_pc' = "done"
          /\ render_result' = RenderRaised("PlaywrightError")
    /\ UNCHANGED <<render_url, render_locals, render_error, browser_closed>>
    /\ RenderUnchanged

\* one step of the try block: it completes and binds its names, or it
\* raises and binds none (what a step binds before the statement that
\* raises is either bound again by the except clause or is not the last
\* name of the step)
TryStep ==
    /\ \E k \in 1..Len(TrySteps) : render_pc = TrySteps[k]
    /\ \/ /\ render_locals' = BoundBy(render_pc) @@ render_locals
          /\ render_pc' = StepAfter(render_pc)
          /\ UNCHANGED render_error
       \/ /\ \E e \in ErrorsOf(render_pc) : render_error' = e
          /\ render_pc' = "except"
          /\ UNCHANGED render_locals
    /\ UNCHANGED <<render_url, browser_closed, render_result>>
    /\ RenderUnchanged

\* lines 539-546
RenderExcept ==
    /\ render_pc = "except"
    /\ render_locals' = ExceptBindings(render_error) @@ render_locals
    /\ render_pc' = "finally"
    /\ UNCHANGED <<render_url, render_error, browser_closed, render_result>>
    /\ RenderUnchanged

\* lines 548-549
RenderFinally ==
    /\ render_pc = "finally"
    /\ browser_closed' = TRUE
    /\ render_pc' = "return"
    /\ UNCHANGED <<render_url, render_locals, render_error, render_result>>
    /\ RenderUnchanged

\* line 551: reading a name that no statement has bound raises
\* UnboundLocalError
RenderReturn ==
    /\ render_pc = "return"
    /\ render_result' =
          IF \A i \in 1..Len(ReturnNames) : ReturnNames[i] \in DOMAIN render_locals
          THEN RenderedWith([i \in 1..Len(ReturnNames) |->
                               render_locals[ReturnNames[i]]])
          ELSE RenderRaised("UnboundLocalError")
    /\ render_pc' = "done"
    /\ UNCHANGED <<render_url, render_locals, render_error, browser_closed>>
    /\ RenderUnchanged

RenderNext ==
    \/ Launch
    \/ TryStep
    \/ RenderExcept
    \/ RenderFinally
    \/ RenderReturn

SpecRender == RenderInit /\ [][RenderNext]_vars

\* C29: when a step of the try block has failed, get_rendered_html ends
\* with the browser closed and by returning its whole tuple, every element
\* defined and the first the error document; it does not end by raising.
C29_FailureReturnsTuple ==
    (render_pc = "done" /\ render_error # "") =>
        /\ browser_closed
        /\ render_result.kind = "tuple"
        /\ Len(render_result.values) = Len(ReturnNames)
        /\ render_result.values[1]
              = <<ErrorDocOpen, render_error, ErrorDocClose>>


\* C30: the tuple get_rendered_html returns has the shape clone_site
\* unpacks: it has as many elements as line 571 of hello.py has names, and
\* once the renderer has returned, clone_site does not end the hand-off
\* with the ValueError of a failed unpacking.
C30_TupleShapeUnpacks ==
    rendered # <<>> =>
        /\ Len(rendered) = UnpackCount
        /\ Len(ReturnNames) = UnpackCount
        /\ clone_error # "ValueError"

====
